---- MODULE Spec2Model ----
(***************************************************************************)
(* State-machine model of esp32-firmware/main/main.c: the configuration    *)
(* store (load / legacy migration / save / sanitization), the output       *)
(* command interpreter, the Wi-Fi station / fallback-AP manager and the    *)
(* signed OTA pipeline, together with the HTTP handlers that drive them.   *)
(*                                                                         *)
(* C strings are sequences of one-character strings; C arrays keep their   *)
(* 0-based indices (functions over 0..N-1).                                *)
(***************************************************************************)
EXTENDS Integers, Sequences, FiniteSets, TLC

(***************************************************************************)
(* Program constants (main.c #defines and literals).                       *)
(***************************************************************************)
MAX_STR == 96
MAX_RELAYS == 8
WEB_STATUS_LED_PIN == 2
RELAY1_PIN == 16
RELAY2_PIN == 17
RELAY3_PIN == 18
RELAY4_PIN == 19
LIGHT_SINGLE_PIN == 23
FAN_POWER_PIN == 32
DIMMER_PIN == 21
RGB_R_PIN == 25
RGB_G_PIN == 26
RGB_B_PIN == 27
RGB_W_PIN == 14
FAN_SPEED_PIN == 33
CH_DIMMER == 0
CH_RGB_R == 1
CH_RGB_G == 2
CH_RGB_B == 3
CH_RGB_W == 4
CH_FAN == 5
MAX_GPIO == 39
STA_MAX_RETRY == 5
AP_MIN_PASS_LEN == 8
SHA256_LEN == 32
SIG_MSG_SIZE == 256

DEFAULT_RELAY_GPIOS == [i \in 0..3 |-> RELAY1_PIN + i]
SAFE_SCAN_GPIOS == {2, 4, 5, 12, 13, 14, 15, 16, 17, 18, 19, 21, 22, 23, 25, 26, 27, 32, 33}

(***************************************************************************)
(* Bounds of the model (not program constants).                            *)
(***************************************************************************)
\* HTTP requests served in one run
MaxReqs == 2
\* radio outcomes (connect results, link losses) in one run
MaxRadioEvents == 7
\* reboots in one run
MaxBoots == 2

(***************************************************************************)
(* Strings.                                                                *)
(***************************************************************************)
Rep(c, n) == [i \in 1..n |-> c]

\* the first n characters of s
Prefix(s, n) == IF Len(s) <= n THEN s ELSE SubSeq(s, 1, n)

\* snprintf(dst, dst_size, "%s", src): at most dst_size-1 characters are kept
safe_strcpy(src, dst_size) == Prefix(src, dst_size - 1)

IsCtl(c) == c \in {"\r", "\n", "\t"}

NotCtl(c) == ~IsCtl(c)
StripCtl(s) == SelectSeq(s, NotCtl)

\* the while loop that cuts trailing spaces
TrimTrailing(s) ==
    IF \A i \in 1..Len(s) : s[i] = " " THEN <<>>
    ELSE SubSeq(s, 1, CHOOSE n \in 1..Len(s) : s[n] # " " /\ \A j \in (n + 1)..Len(s) : s[j] = " ")

\* the start pointer that skips leading spaces, and the memmove
TrimLeading(s) ==
    IF \A i \in 1..Len(s) : s[i] = " " THEN <<>>
    ELSE SubSeq(s, CHOOSE n \in 1..Len(s) : s[n] # " " /\ \A j \in 1..(n - 1) : s[j] = " ", Len(s))

\* mutant: the leading spaces are kept
sanitize_wifi_field_NoLeadTrim(s) == TrimTrailing(StripCtl(s))

\* mutant: the spaces are trimmed before the control characters are dropped
sanitize_wifi_field_TrimFirst(s) == StripCtl(TrimLeading(TrimTrailing(s)))

\* sanitize_wifi_field: drop CR/LF/TAB, then trailing spaces, then leading spaces
sanitize_wifi_field(s) == TrimLeading(TrimTrailing(StripCtl(s)))

\* "no CR/LF/TAB and no leading or trailing space"
IsCleanText(s) ==
    /\ \A i \in 1..Len(s) : ~IsCtl(s[i])
    /\ s # <<>> => (s[1] # " " /\ s[Len(s)] # " ")

clamp_int(value, min_val, max_val) ==
    IF value < min_val THEN min_val
    ELSE IF value > max_val THEN max_val
    ELSE value

(***************************************************************************)
(* Pins.                                                                   *)
(***************************************************************************)
\* ESP32 SOC output-capable pads: 0..33 without 20, 24 and 28..31
GPIO_IS_VALID_OUTPUT_GPIO(pin) == pin \in ((0..33) \ {20, 24, 28, 29, 30, 31})

valid_output_gpio_int(pin) == pin >= 0 /\ pin <= MAX_GPIO /\ GPIO_IS_VALID_OUTPUT_GPIO(pin)

is_safe_scan_gpio_int(pin) == pin \in SAFE_SCAN_GPIOS

valid_relay_gpio_int(pin) == valid_output_gpio_int(pin) /\ is_safe_scan_gpio_int(pin)

(***************************************************************************)
(* DeviceConfig.                                                           *)
(***************************************************************************)
StrFields == {"name", "type", "passcode", "wifi_ssid", "wifi_pass", "ap_ssid", "ap_pass",
              "static_ip", "gateway", "subnet_mask", "ota_key"}

WifiFields == {"wifi_ssid", "wifi_pass", "ap_ssid", "ap_pass"}

\* generated_defaults.h (FW_DEFAULT_*)
FW_DEFAULT_NAME == <<"8", "b", "b">>
FW_DEFAULT_TYPE == <<"r", "e", "l", "a", "y", "_", "s", "w", "i", "t", "c", "h">>
FW_DEFAULT_PASSCODE == <<"x">>
FW_DEFAULT_WIFI_SSID == <<>>
FW_DEFAULT_WIFI_PASS == <<>>
FW_DEFAULT_AP_SSID == <<"8", "b", "b", "-", "a", "p">>
FW_DEFAULT_AP_PASS == <<"1", "2", "3", "4", "5", "6", "7", "8">>
FW_DEFAULT_USE_STATIC_IP == FALSE
FW_DEFAULT_STATIC_IP == <<>>
FW_DEFAULT_GATEWAY == <<>>
FW_DEFAULT_SUBNET_MASK == <<>>
FW_DEFAULT_OTA_KEY == <<"k">>

\* the static initializer of g_cfg
DefaultCfg ==
    [name |-> FW_DEFAULT_NAME, type |-> FW_DEFAULT_TYPE, passcode |-> FW_DEFAULT_PASSCODE,
     relay_count |-> 4,
     relay_gpio |-> [i \in 0..(MAX_RELAYS - 1) |-> IF i < 4 THEN DEFAULT_RELAY_GPIOS[i] ELSE -1],
     wifi_ssid |-> FW_DEFAULT_WIFI_SSID, wifi_pass |-> FW_DEFAULT_WIFI_PASS,
     ap_ssid |-> FW_DEFAULT_AP_SSID, ap_pass |-> FW_DEFAULT_AP_PASS,
     use_static_ip |-> FW_DEFAULT_USE_STATIC_IP, static_ip |-> FW_DEFAULT_STATIC_IP,
     gateway |-> FW_DEFAULT_GATEWAY, subnet_mask |-> FW_DEFAULT_SUBNET_MASK,
     ota_key |-> FW_DEFAULT_OTA_KEY]

\* the static initializer of g_state ({0})
ZeroState ==
    [relay |-> [i \in 0..(MAX_RELAYS - 1) |-> FALSE], light_single |-> FALSE,
     dimmer_pct |-> 0, rgb |-> [i \in 0..3 |-> 0], fan_power |-> FALSE, fan_speed_pct |-> 0]

sanitize_relay_count(cfg) == [cfg EXCEPT !.relay_count = clamp_int(@, 1, MAX_RELAYS)]

\* mutant: an invalid pin in slots 0..3 becomes -1 instead of the default pin
sanitize_relay_gpio_map_NoDefault(cfg) ==
    [sanitize_relay_count(cfg) EXCEPT !.relay_gpio =
        [i \in 0..(MAX_RELAYS - 1) |-> IF valid_relay_gpio_int(cfg.relay_gpio[i])
                                       THEN cfg.relay_gpio[i] ELSE -1]]

sanitize_relay_gpio_map(cfg) ==
    [sanitize_relay_count(cfg) EXCEPT !.relay_gpio =
        [i \in 0..(MAX_RELAYS - 1) |->
            IF valid_relay_gpio_int(cfg.relay_gpio[i]) THEN cfg.relay_gpio[i]
            ELSE IF i < 4 THEN DEFAULT_RELAY_GPIOS[i]
            ELSE -1]]

\* relay_pin_in_use reads the relay map after clamping relay_count
relay_pin_in_use(cfg, pin) ==
    \E i \in 0..(MAX_RELAYS - 1) :
        i < sanitize_relay_count(cfg).relay_count /\ cfg.relay_gpio[i] = pin

aux_pin_available(cfg, pin) == valid_output_gpio_int(pin) /\ ~relay_pin_in_use(cfg, pin)

sanitize_wifi_fields(cfg) ==
    [cfg EXCEPT !.wifi_ssid = sanitize_wifi_field(@), !.wifi_pass = sanitize_wifi_field(@),
                !.ap_ssid = sanitize_wifi_field(@), !.ap_pass = sanitize_wifi_field(@)]

(***************************************************************************)
(* JSON values as cJSON presents them.  A scalar is [t, s, n]: t is the    *)
(* cJSON type, s the valuestring, n the valueint.  An array is [t, a].     *)
(***************************************************************************)
JAbsent == [t |-> "absent", s |-> <<>>, n |-> 0]
JStr(s) == [t |-> "str", s |-> s, n |-> 0]
JNum(n) == [t |-> "num", s |-> <<>>, n |-> n]
JBool(b) == [t |-> "bool", s |-> <<>>, n |-> IF b THEN 1 ELSE 0]
JNoArr == [t |-> "absent", a |-> <<>>]
JArr(a) == [t |-> "arr", a |-> a]

cJSON_IsString(j) == j.t = "str"
cJSON_IsNumber(j) == j.t = "num"
cJSON_IsBool(j) == j.t = "bool"
cJSON_IsTrue(j) == j.t = "bool" /\ j.n = 1
cJSON_IsArray(j) == j.t = "arr"
\* cJSON_GetArrayItem(arr, i): NULL past the end
cJSON_GetArrayItem(j, i) == IF i < Len(j.a) THEN j.a[i + 1] ELSE JAbsent

(***************************************************************************)
(* The drivers.  A world w carries what the interpreter reads and writes:  *)
(* cfg (g_cfg), st (g_state), level (GPIO output level per pad), duty      *)
(* (LEDC duty per channel), led (g_web_led_enabled) and calls, the driver  *)
(* calls made by the operation in progress.                                *)
(***************************************************************************)
gpio_set_level(w, pin, lvl) ==
    [w EXCEPT !.level[pin] = lvl, !.calls = @ \cup {<<"gpio_set_level", pin, lvl>>}]

\* gpio_reset_pin + gpio_set_direction(OUTPUT): the pad's latched level is kept
gpio_reset_output(w, pin) == [w EXCEPT !.calls = @ \cup {<<"gpio_reset_pin", pin, 0>>}]

ledc_set_duty(w, channel, duty) ==
    [w EXCEPT !.duty[channel] = duty, !.calls = @ \cup {<<"ledc_set_duty", channel, duty>>}]

\* ledc_stop(mode, channel, 0): the output idles low
ledc_stop(w, channel) ==
    [w EXCEPT !.duty[channel] = 0, !.calls = @ \cup {<<"ledc_stop", channel, 0>>}]

\* ledc_channel_config with .duty = 0
ledc_channel_config(w, channel) ==
    [w EXCEPT !.duty[channel] = 0, !.calls = @ \cup {<<"ledc_channel_config", channel, 0>>}]

ledc_set_percent(w, channel, pct) ==
    ledc_set_duty(w, channel, (clamp_int(pct, 0, 100) * 255) \div 100)

Level(b) == IF b THEN 1 ELSE 0

\* mutant: the relay_count guard is missing
apply_relay_NoCountGuard(w, idx, on) ==
    IF idx < 0 \/ idx >= MAX_RELAYS THEN w
    ELSE LET w1 == [w EXCEPT !.cfg = sanitize_relay_gpio_map(@)]
             pin == w1.cfg.relay_gpio[idx]
         IN IF ~valid_relay_gpio_int(pin) THEN w1
            ELSE [gpio_set_level(w1, pin, Level(on)) EXCEPT !.st.relay[idx] = on]

apply_relay(w, idx, on) ==
    IF idx < 0 \/ idx >= MAX_RELAYS THEN w
    ELSE IF idx >= w.cfg.relay_count THEN w
    ELSE LET w1 == [w EXCEPT !.cfg = sanitize_relay_gpio_map(@)]
             pin == w1.cfg.relay_gpio[idx]
         IN IF ~valid_relay_gpio_int(pin) THEN w1
            ELSE [gpio_set_level(w1, pin, Level(on)) EXCEPT !.st.relay[idx] = on]

apply_light_single(w, on) ==
    LET w1 == IF aux_pin_available(w.cfg, LIGHT_SINGLE_PIN)
              THEN gpio_set_level(w, LIGHT_SINGLE_PIN, Level(on)) ELSE w
    IN [w1 EXCEPT !.st.light_single = on]

\* mutant: the percentage is recorded as received
apply_dimmer_Unclamped(w, pct) ==
    LET w1 == [w EXCEPT !.st.dimmer_pct = pct]
    IN ledc_set_percent(w1, CH_DIMMER, w1.st.dimmer_pct)

apply_dimmer(w, pct) ==
    LET w1 == [w EXCEPT !.st.dimmer_pct = clamp_int(pct, 0, 100)]
    IN ledc_set_percent(w1, CH_DIMMER, w1.st.dimmer_pct)

apply_rgb(w, r, g, b, wh) ==
    LET w1 == [w EXCEPT !.st.rgb = [i \in 0..3 |->
                   clamp_int(CASE i = 0 -> r [] i = 1 -> g [] i = 2 -> b [] OTHER -> wh, 0, 100)]]
        w2 == ledc_set_percent(w1, CH_RGB_R, w1.st.rgb[0])
        w3 == ledc_set_percent(w2, CH_RGB_G, w1.st.rgb[1])
        w4 == ledc_set_percent(w3, CH_RGB_B, w1.st.rgb[2])
    IN ledc_set_percent(w4, CH_RGB_W, w1.st.rgb[3])

apply_fan(w, power, speed_pct) ==
    LET w1 == [w EXCEPT !.st.fan_power = power, !.st.fan_speed_pct = clamp_int(speed_pct, 0, 100)]
        w2 == IF aux_pin_available(w1.cfg, FAN_POWER_PIN)
              THEN gpio_set_level(w1, FAN_POWER_PIN, Level(power)) ELSE w1
    IN ledc_set_percent(w2, CH_FAN, IF power THEN w1.st.fan_speed_pct ELSE 0)

(***************************************************************************)
(* The output command interpreter.                                         *)
(***************************************************************************)
S_toggle == <<"t", "o", "g", "g", "l", "e">>
S_on == <<"o", "n">>
S_off == <<"o", "f", "f">>
S_set == <<"s", "e", "t">>
S_relay == <<"r", "e", "l", "a", "y">>
S_light == <<"l", "i", "g", "h", "t">>
S_dimmer == <<"d", "i", "m", "m", "e", "r">>
S_rgb == <<"r", "g", "b">>
S_rgbw == <<"r", "g", "b", "w">>
S_fan == <<"f", "a", "n">>
S_fan_power == <<"f", "a", "n", "_", "p", "o", "w", "e", "r">>
S_fan_speed == <<"f", "a", "n", "_", "s", "p", "e", "e", "d">>

Digits == <<"0", "1", "2", "3", "4", "5", "6", "7", "8", "9">>
IsDigit(c) == \E d \in 1..10 : Digits[d] = c
DigitVal(c) == (CHOOSE d \in 1..10 : Digits[d] = c) - 1

RECURSIVE AtoiDigits(_, _)
AtoiDigits(s, acc) ==
    IF s = <<>> \/ ~IsDigit(Head(s)) THEN acc
    ELSE AtoiDigits(Tail(s), acc * 10 + DigitVal(Head(s)))

\* atoi: leading white space, an optional sign, then the digits up to the first non-digit
RECURSIVE atoi(_)
atoi(s) ==
    IF s = <<>> THEN 0
    ELSE IF Head(s) \in {" ", "\t", "\n", "\r"} THEN atoi(Tail(s))
    ELSE IF Head(s) = "-" THEN 0 - AtoiDigits(Tail(s), 0)
    ELSE IF Head(s) = "+" THEN AtoiDigits(Tail(s), 0)
    ELSE AtoiDigits(s, 0)

\* strncmp(s, p, Len(p)) == 0
strn_eq(s, p) == Len(s) >= Len(p) /\ SubSeq(s, 1, Len(p)) = p

\* mutant: "toggle" switches on whatever the current value is
parse_on_off_toggle_ToggleOn(state, current) ==
    IF state = S_toggle \/ state = S_on THEN TRUE
    ELSE IF state = S_off THEN FALSE
    ELSE current

\* mutant: a state that is none of the three words switches off
parse_on_off_toggle_UnknownOff(state, current) ==
    IF state = S_toggle THEN ~current
    ELSE state = S_on

parse_on_off_toggle(state, current) ==
    IF state = S_toggle THEN ~current
    ELSE IF state = S_on THEN TRUE
    ELSE IF state = S_off THEN FALSE
    ELSE current

\* mutant: only an index below 0 is refused
RelayIndexRejected_NoUpper(cfg, idx) == idx < 0

\* the range check of the relay branch (line 403)
RelayIndexRejected(cfg, idx) == idx < 0 \/ idx >= cfg.relay_count

\* mutant: a fan_speed command leaves the power flag as it was
FanCommandPower_KeepOnSpeed(ch, st, val, power0) ==
    IF ch = S_fan_speed THEN power0
    ELSE IF ch = S_fan /\ st = S_set THEN val > 0
    ELSE parse_on_off_toggle(st, power0)

\* the power a fan, fan_power or fan_speed command resolves to (lines 440..453)
FanCommandPower(ch, st, val, power0) ==
    IF ch = S_fan_power THEN parse_on_off_toggle(st, power0)
    ELSE IF ch = S_fan_speed THEN val > 0
    ELSE IF st = S_set THEN val > 0
    ELSE parse_on_off_toggle(st, power0)

\* mutant: switching the fan off keeps the speed
FanCommandSpeed_KeepWhenOff(ch, st, val, power, speed0) ==
    IF ch = S_fan_power THEN speed0
    ELSE IF ch = S_fan_speed \/ st = S_set THEN val
    ELSE IF power /\ speed0 = 0 THEN 50
    ELSE speed0

\* mutant: a fan switched on from speed 0 gets no default speed
FanCommandSpeed_NoDefault(ch, st, val, power, speed0) ==
    IF ch = S_fan_power THEN speed0
    ELSE IF ch = S_fan_speed \/ st = S_set THEN val
    ELSE IF ~power THEN 0
    ELSE speed0

\* the speed handed to apply_fan (lines 441..455)
FanCommandSpeed(ch, st, val, power, speed0) ==
    IF ch = S_fan_power THEN speed0
    ELSE IF ch = S_fan_speed THEN val
    ELSE IF st = S_set THEN val
    ELSE IF ~power THEN 0
    ELSE IF speed0 = 0 THEN 50
    ELSE speed0

\* handle_control: [ok, w]
handle_control(w, root) ==
    IF ~cJSON_IsString(root.channel) THEN [ok |-> FALSE, w |-> w]
    ELSE
    LET ch == root.channel.s
        st == IF cJSON_IsString(root.state) THEN root.state.s ELSE S_toggle
        val == IF cJSON_IsNumber(root.value) THEN root.value.n ELSE 0
    IN
    IF strn_eq(ch, S_relay) THEN
        LET idx == atoi(SubSeq(ch, 6, Len(ch))) - 1 IN
        IF RelayIndexRejected(w.cfg, idx) THEN [ok |-> FALSE, w |-> w]
        ELSE LET target == parse_on_off_toggle(st,
                               IF idx >= 0 /\ idx < MAX_RELAYS THEN w.st.relay[idx] ELSE FALSE)
             IN [ok |-> TRUE, w |-> apply_relay(w, idx, target)]
    ELSE IF ch = S_light THEN
        [ok |-> TRUE, w |-> apply_light_single(w, parse_on_off_toggle(st, w.st.light_single))]
    ELSE IF ch = S_dimmer THEN
        LET pct == IF st = S_set THEN val
                   ELSE IF parse_on_off_toggle(st, w.st.dimmer_pct > 0) THEN 100 ELSE 0
        IN [ok |-> TRUE, w |-> apply_dimmer(w, pct)]
    ELSE IF ch = S_rgb \/ ch = S_rgbw THEN
        IF st = S_off THEN [ok |-> TRUE, w |-> apply_rgb(w, 0, 0, 0, 0)]
        ELSE IF st = S_on THEN
            [ok |-> TRUE, w |-> apply_rgb(w, 100, 100, 100, IF ch = S_rgbw THEN 100 ELSE 0)]
        ELSE [ok |-> TRUE, w |-> apply_rgb(w,
                  IF cJSON_IsNumber(root.r) THEN root.r.n ELSE w.st.rgb[0],
                  IF cJSON_IsNumber(root.g) THEN root.g.n ELSE w.st.rgb[1],
                  IF cJSON_IsNumber(root.b) THEN root.b.n ELSE w.st.rgb[2],
                  IF cJSON_IsNumber(root.w) THEN root.w.n ELSE w.st.rgb[3])]
    ELSE IF ch = S_fan \/ ch = S_fan_power \/ ch = S_fan_speed THEN
        LET power0 == w.st.fan_power
            speed0 == w.st.fan_speed_pct
            power == FanCommandPower(ch, st, val, power0)
            speed == FanCommandSpeed(ch, st, val, power, speed0)
        IN [ok |-> TRUE, w |-> apply_fan(w, power, speed)]
    ELSE [ok |-> FALSE, w |-> w]

(***************************************************************************)
(* Pin set-up.                                                             *)
(***************************************************************************)
\* The value of a one-element set.  { body(v) : v \in {e} } makes the evaluator finish
\* e before body starts, as the C statements do, so long call chains stay shallow.
Strict(S) == CHOOSE r \in S : TRUE

RECURSIVE ResetRelayPins(_, _)
ResetRelayPins(w, i) ==
    IF i >= MAX_RELAYS THEN w
    ELSE Strict({ResetRelayPins(n, i + 1) :
                    n \in {IF valid_relay_gpio_int(w.cfg.relay_gpio[i])
                           THEN gpio_reset_output(w, w.cfg.relay_gpio[i]) ELSE w}})

configure_relay_gpio_outputs(w) ==
    ResetRelayPins([w EXCEPT !.cfg = sanitize_relay_gpio_map(@)], 0)

PwmChans == <<[gpio |-> DIMMER_PIN, channel |-> CH_DIMMER], [gpio |-> RGB_R_PIN, channel |-> CH_RGB_R],
              [gpio |-> RGB_G_PIN, channel |-> CH_RGB_G], [gpio |-> RGB_B_PIN, channel |-> CH_RGB_B],
              [gpio |-> RGB_W_PIN, channel |-> CH_RGB_W], [gpio |-> FAN_SPEED_PIN, channel |-> CH_FAN]>>

RECURSIVE ConfigurePwm(_, _)
ConfigurePwm(w, i) ==
    IF i > Len(PwmChans) THEN w
    ELSE Strict({ConfigurePwm(IF aux_pin_available(n.cfg, PwmChans[i].gpio)
                              THEN ledc_channel_config(n, PwmChans[i].channel) ELSE n, i + 1) :
                    n \in {ledc_stop(w, PwmChans[i].channel)}})

configure_output_pins_only(w) ==
    Strict({ConfigurePwm(c3, 1) :
        c3 \in {IF aux_pin_available(c2.cfg, FAN_POWER_PIN)
                THEN gpio_reset_output(c2, FAN_POWER_PIN) ELSE c2 :
        c2 \in {IF aux_pin_available(c1.cfg, LIGHT_SINGLE_PIN)
                THEN gpio_reset_output(c1, LIGHT_SINGLE_PIN) ELSE c1 :
        c1 \in {configure_relay_gpio_outputs(w)}}}})

set_web_status_led(w, on) ==
    IF ~w.led THEN w ELSE gpio_set_level(w, WEB_STATUS_LED_PIN, Level(on))

setup_web_status_led(w) ==
    IF ~valid_output_gpio_int(WEB_STATUS_LED_PIN) THEN [w EXCEPT !.led = FALSE]
    ELSE IF relay_pin_in_use(w.cfg, WEB_STATUS_LED_PIN) THEN [w EXCEPT !.led = FALSE]
    ELSE [gpio_set_level(gpio_reset_output(w, WEB_STATUS_LED_PIN), WEB_STATUS_LED_PIN, 0)
             EXCEPT !.led = TRUE]

RECURSIVE RelaysOff(_, _)
RelaysOff(w, i) ==
    IF i >= MAX_RELAYS THEN w
    ELSE Strict({RelaysOff(n, i + 1) : n \in {apply_relay(w, i, FALSE)}})

RECURSIVE InactiveRelaysOff(_, _)
InactiveRelaysOff(w, i) ==
    IF i >= MAX_RELAYS THEN w
    ELSE Strict({InactiveRelaysOff([n EXCEPT !.st.relay[i] = FALSE], i + 1) :
                    n \in {IF valid_output_gpio_int(w.cfg.relay_gpio[i])
                           THEN gpio_set_level(w, w.cfg.relay_gpio[i], 0) ELSE w}})

init_outputs(w) ==
    Strict({apply_fan(io6, FALSE, 0) :
        io6 \in {apply_rgb(io5, 0, 0, 0, 0) :
        io5 \in {apply_dimmer(io4, 0) :
        io4 \in {apply_light_single(io3, FALSE) :
        io3 \in {InactiveRelaysOff(io2, io2.cfg.relay_count) :
        io2 \in {RelaysOff(io1, 0) :
        io1 \in {configure_output_pins_only(w)}}}}}}})

(***************************************************************************)
(* Memory images.  nvs_get_blob and nvs_set_blob move bytes between the    *)
(* flash and a struct, so a record is also modelled as the bytes of its    *)
(* struct: char arrays of MAX_STR bytes, 4-byte little-endian ints, a      *)
(* 1-byte bool, and tail padding to the 4-byte alignment of int.           *)
(***************************************************************************)
\* the printable ASCII characters, codes 32..126 (code 96, which a string here cannot
\* hold, reads as "?")
Ascii ==
    <<" ", "!", "\"", "#", "$", "%", "&", "'", "(", ")", "*", "+", ",", "-", ".", "/",
      "0", "1", "2", "3", "4", "5", "6", "7", "8", "9", ":", ";", "<", "=", ">", "?",
      "@", "A", "B", "C", "D", "E", "F", "G", "H", "I", "J", "K", "L", "M", "N", "O",
      "P", "Q", "R", "S", "T", "U", "V", "W", "X", "Y", "Z", "[", "\\", "]", "^", "_",
      "?", "a", "b", "c", "d", "e", "f", "g", "h", "i", "j", "k", "l", "m", "n", "o",
      "p", "q", "r", "s", "t", "u", "v", "w", "x", "y", "z", "{", "|", "}", "~">>

\* the byte of a character
Ord(c) ==
    IF c = "\t" THEN 9 ELSE IF c = "\n" THEN 10 ELSE IF c = "\r" THEN 13
    ELSE IF \E i \in 1..Len(Ascii) : Ascii[i] = c
         THEN 31 + (CHOOSE i \in 1..Len(Ascii) : Ascii[i] = c /\ \A j \in 1..(i - 1) : Ascii[j] # c)
    ELSE 63

\* the character of a non-zero byte; a byte that is no text character reads as "?"
Chr(b) ==
    IF b = 9 THEN "\t" ELSE IF b = 10 THEN "\n" ELSE IF b = 13 THEN "\r"
    ELSE IF b \in 32..126 THEN Ascii[b - 31]
    ELSE "?"

\* char buf[n] holding the string s: its bytes, a terminator, zero fill
CharArray(s, n) == [i \in 1..n |-> IF i <= Len(s) THEN Ord(s[i]) ELSE 0]

\* the four bytes of an int, least significant first, two's complement
Int32Bytes(v) ==
    LET m == IF v < 0 THEN -(v + 1) ELSE v
        b == <<m % 256, (m \div 256) % 256, (m \div 65536) % 256, (m \div 16777216) % 256>>
    IN IF v < 0 THEN [i \in 1..4 |-> 255 - b[i]] ELSE b

BytesInt32(b) ==
    LET Mag(c) == c[1] + 256 * c[2] + 65536 * c[3] + 16777216 * c[4]
    IN IF b[4] >= 128 THEN -(Mag([i \in 1..4 |-> 255 - b[i]])) - 1 ELSE Mag(b)

IntArrayBytes(a, n) == [i \in 1..(4 * n) |-> Int32Bytes(a[(i - 1) \div 4])[((i - 1) % 4) + 1]]

Zeros(n) == [i \in 1..n |-> 0]

Align4(n) == ((n + 3) \div 4) * 4

\* offsets of the members of device_config_t
CfgCountOff == 3 * MAX_STR
CfgPinsOff == CfgCountOff + 4
CfgWifiOff == CfgPinsOff + 4 * MAX_RELAYS
CfgBoolOff == CfgWifiOff + 4 * MAX_STR
CfgNetOff == CfgBoolOff + 1
SizeofDeviceConfig == Align4(CfgNetOff + 4 * MAX_STR)

\* offsets of the members of legacy_device_config_v1_t
LegPinsOff == 3 * MAX_STR
LegWifiOff == LegPinsOff + 4 * 4
LegBoolOff == LegWifiOff + 4 * MAX_STR
LegNetOff == LegBoolOff + 1
SizeofLegacyConfig == Align4(LegNetOff + 4 * MAX_STR)

\* the bytes of a device_config_t
ConfigImage(cfg) ==
    CharArray(cfg.name, MAX_STR) \o CharArray(cfg.type, MAX_STR) \o CharArray(cfg.passcode, MAX_STR)
    \o Int32Bytes(cfg.relay_count) \o IntArrayBytes(cfg.relay_gpio, MAX_RELAYS)
    \o CharArray(cfg.wifi_ssid, MAX_STR) \o CharArray(cfg.wifi_pass, MAX_STR)
    \o CharArray(cfg.ap_ssid, MAX_STR) \o CharArray(cfg.ap_pass, MAX_STR)
    \o <<IF cfg.use_static_ip THEN 1 ELSE 0>>
    \o CharArray(cfg.static_ip, MAX_STR) \o CharArray(cfg.gateway, MAX_STR)
    \o CharArray(cfg.subnet_mask, MAX_STR) \o CharArray(cfg.ota_key, MAX_STR)
    \o Zeros(SizeofDeviceConfig - (CfgNetOff + 4 * MAX_STR))

\* the bytes of a legacy_device_config_v1_t
LegacyImage(legacy) ==
    CharArray(legacy.name, MAX_STR) \o CharArray(legacy.type, MAX_STR)
    \o CharArray(legacy.passcode, MAX_STR)
    \o IntArrayBytes(legacy.relay_gpio, 4)
    \o CharArray(legacy.wifi_ssid, MAX_STR) \o CharArray(legacy.wifi_pass, MAX_STR)
    \o CharArray(legacy.ap_ssid, MAX_STR) \o CharArray(legacy.ap_pass, MAX_STR)
    \o <<IF legacy.use_static_ip THEN 1 ELSE 0>>
    \o CharArray(legacy.static_ip, MAX_STR) \o CharArray(legacy.gateway, MAX_STR)
    \o CharArray(legacy.subnet_mask, MAX_STR) \o CharArray(legacy.ota_key, MAX_STR)
    \o Zeros(SizeofLegacyConfig - (LegNetOff + 4 * MAX_STR))

\* the C string that starts at byte offset off: the bytes up to the first zero
CStringAt(img, off) ==
    LET n == CHOOSE k \in 0..(Len(img) - off) :
                 /\ \A i \in 1..k : img[off + i] # 0
                 /\ (k = Len(img) - off \/ img[off + k + 1] = 0)
    IN [i \in 1..n |-> Chr(img[off + i])]

IntAt(img, off) == BytesInt32(SubSeq(img, off + 1, off + 4))

BoolAt(img, off) == img[off + 1] # 0

\* a device_config_t as the code reads its members
ConfigOfImage(img) ==
    [name |-> CStringAt(img, 0), type |-> CStringAt(img, MAX_STR),
     passcode |-> CStringAt(img, 2 * MAX_STR),
     relay_count |-> IntAt(img, CfgCountOff),
     relay_gpio |-> [i \in 0..(MAX_RELAYS - 1) |-> IntAt(img, CfgPinsOff + 4 * i)],
     wifi_ssid |-> CStringAt(img, CfgWifiOff), wifi_pass |-> CStringAt(img, CfgWifiOff + MAX_STR),
     ap_ssid |-> CStringAt(img, CfgWifiOff + 2 * MAX_STR),
     ap_pass |-> CStringAt(img, CfgWifiOff + 3 * MAX_STR),
     use_static_ip |-> BoolAt(img, CfgBoolOff),
     static_ip |-> CStringAt(img, CfgNetOff), gateway |-> CStringAt(img, CfgNetOff + MAX_STR),
     subnet_mask |-> CStringAt(img, CfgNetOff + 2 * MAX_STR),
     ota_key |-> CStringAt(img, CfgNetOff + 3 * MAX_STR)]

\* a legacy_device_config_v1_t as the code reads its members
LegacyOfImage(img) ==
    [name |-> CStringAt(img, 0), type |-> CStringAt(img, MAX_STR),
     passcode |-> CStringAt(img, 2 * MAX_STR),
     relay_gpio |-> [i \in 0..3 |-> IntAt(img, LegPinsOff + 4 * i)],
     wifi_ssid |-> CStringAt(img, LegWifiOff), wifi_pass |-> CStringAt(img, LegWifiOff + MAX_STR),
     ap_ssid |-> CStringAt(img, LegWifiOff + 2 * MAX_STR),
     ap_pass |-> CStringAt(img, LegWifiOff + 3 * MAX_STR),
     use_static_ip |-> BoolAt(img, LegBoolOff),
     static_ip |-> CStringAt(img, LegNetOff), gateway |-> CStringAt(img, LegNetOff + MAX_STR),
     subnet_mask |-> CStringAt(img, LegNetOff + 2 * MAX_STR),
     ota_key |-> CStringAt(img, LegNetOff + 3 * MAX_STR)]

(***************************************************************************)
(* The store.  nvs is what the flash holds under namespace "cfg", key      *)
(* "device": kind "none" (namespace never written), "current" (the bytes   *)
(* of a device_config_t), "legacy" (the bytes of a                         *)
(* legacy_device_config_v1_t) or "other" (a record longer than either      *)
(* struct).  blob is the record whose bytes are stored.                    *)
(***************************************************************************)
StoredBytes(store) ==
    CASE store.kind = "current" -> ConfigImage(store.blob)
      [] store.kind = "legacy" -> LegacyImage(store.blob)
      [] OTHER -> Zeros(SizeofDeviceConfig + 4)

\* mutant: the length of the stored record is not checked
nvs_get_blob_AnyLength(store, len, read_ok) == read_ok

\* nvs_get_blob(nvs, "device", out, &len) with len = the size of the buffer.  It fails with
\* ESP_ERR_NVS_INVALID_LENGTH when the stored record is longer than the buffer, and it
\* can fail on the flash read (read_ok); a record that is not longer than the buffer is
\* copied to the start of the buffer.
nvs_get_blob(store, len, read_ok) == read_ok /\ Len(StoredBytes(store)) <= len

\* the buffer after a successful nvs_get_blob: the record's bytes, then what was there
BufferAfterRead(buf, store) ==
    StoredBytes(store) \o SubSeq(buf, Len(StoredBytes(store)) + 1, Len(buf))

\* mutant: the save writes nothing
save_config_to_nvs_Skip(cfg, store, ok) == store

\* mutant: a save that fails leaves the store without a record
save_config_to_nvs_EraseOnFail(cfg, store, ok) ==
    IF ~ok THEN [kind |-> "none"] ELSE [kind |-> "current", blob |-> cfg]

\* save_config_to_nvs; ok: the store could be opened READWRITE and written
save_config_to_nvs(cfg, store, ok) ==
    IF ~ok THEN store ELSE [kind |-> "current", blob |-> cfg]

\* the copy of a legacy record into g_cfg (lines 279..293)
MigrateLegacy(cfg, legacy) ==
    [cfg EXCEPT
        !.name = safe_strcpy(legacy.name, MAX_STR),
        !.type = safe_strcpy(legacy.type, MAX_STR),
        !.passcode = safe_strcpy(legacy.passcode, MAX_STR),
        !.relay_count = 4,
        !.relay_gpio = [i \in 0..(MAX_RELAYS - 1) |-> IF i < 4 THEN legacy.relay_gpio[i] ELSE -1],
        !.wifi_ssid = safe_strcpy(legacy.wifi_ssid, MAX_STR),
        !.wifi_pass = safe_strcpy(legacy.wifi_pass, MAX_STR),
        !.ap_ssid = safe_strcpy(legacy.ap_ssid, MAX_STR),
        !.ap_pass = safe_strcpy(legacy.ap_pass, MAX_STR),
        !.use_static_ip = legacy.use_static_ip,
        !.static_ip = safe_strcpy(legacy.static_ip, MAX_STR),
        !.gateway = safe_strcpy(legacy.gateway, MAX_STR),
        !.subnet_mask = safe_strcpy(legacy.subnet_mask, MAX_STR),
        !.ota_key = safe_strcpy(legacy.ota_key, MAX_STR)]

\* what every path that opened the store ends with (lines 300..305)
LoadSanitize(cfg) == sanitize_wifi_fields(sanitize_relay_gpio_map(sanitize_relay_count(cfg)))

\* load_config_from_nvs: [cfg, nvs, path]; open_ok: nvs_open(READONLY) succeeded;
\* read1_ok, read2_ok: the flash reads of the two nvs_get_blob calls succeeded;
\* save_ok: the write-back of a migrated record succeeded
load_config_from_nvs(cfg, store, open_ok, read1_ok, read2_ok, save_ok) ==
    IF ~open_ok \/ store.kind = "none" THEN
        [cfg |-> sanitize_relay_gpio_map(sanitize_relay_count(cfg)), nvs |-> store,
         path |-> "open_failed"]
    ELSE IF nvs_get_blob(store, SizeofDeviceConfig, read1_ok) THEN
        [cfg |-> LoadSanitize(ConfigOfImage(BufferAfterRead(ConfigImage(cfg), store))),
         nvs |-> store, path |-> "current"]
    ELSE IF nvs_get_blob(store, SizeofLegacyConfig, read2_ok) THEN
        LET legacy == LegacyOfImage(BufferAfterRead(Zeros(SizeofLegacyConfig), store))
            migrated == MigrateLegacy(cfg, legacy)
        IN [cfg |-> LoadSanitize(migrated), nvs |-> save_config_to_nvs(migrated, store, save_ok),
            path |-> "legacy"]
    ELSE [cfg |-> LoadSanitize(cfg), nvs |-> store, path |-> "defaults"]

(***************************************************************************)
(* State.                                                                  *)
(***************************************************************************)
VARIABLES
    pc,                       \* where app_main is: "load", "init_outputs", "wifi", "wait",
                              \* "http", "serving", "no_server", "restart"
    boots,                    \* boots so far
    g_cfg, g_state,
    gpio_level, ledc_duty,    \* what the drivers were last told
    drv_calls,                \* driver calls made by the last operation
    g_web_led_enabled, g_server,
    nvs,
    load_path,                \* the branch the last load took
    g_wifi_events,            \* bits set in the event group
    g_sta_fail_count, g_last_wifi_disc_reason,
    wifi_mode, wifi_started,  \* esp_wifi_set_mode / esp_wifi_start / esp_wifi_stop
    sta_link,                 \* the station: "idle", "connecting", "up"
    ap_auth,                  \* authmode of the started access point, "none" before
    ap_starts,                \* calls of start_wifi_ap_fallback
    wifi_calls,               \* esp_wifi_* calls since reset, in order
    evq,                      \* events posted to the default event loop, not yet handled
    radio_events,             \* radio outcomes so far
    resp,                     \* the last HTTP response
    req,                      \* the last HTTP request
    req_count,                \* requests so far
    ota_pc,                   \* where ota_apply_handler is
    firmware_url_copy,
    manifest_buf,             \* the manifest document received
    expected_sha,
    ota_handle,               \* "none", "open", "released"
    part_data,                \* bytes in the inactive OTA partition
    boot_part,                \* the partition the next boot starts: "running", "update"
    fw_rest,                  \* what the firmware URL has still to deliver
    sha_ctx,                  \* bytes fed to the running SHA-256
    fetches                   \* URLs opened by the last OTA request

outVars == <<g_cfg, g_state, gpio_level, ledc_duty, drv_calls, g_web_led_enabled>>
storeVars == <<nvs, load_path>>
wifiVars == <<g_wifi_events, g_sta_fail_count, g_last_wifi_disc_reason, wifi_mode, wifi_started,
              sta_link, ap_auth, ap_starts, wifi_calls, evq, radio_events>>
httpVars == <<resp, req, req_count>>
otaVars == <<ota_pc, firmware_url_copy, manifest_buf, expected_sha, ota_handle, part_data,
             boot_part, fw_rest, sha_ctx, fetches>>
vars == <<pc, boots, g_server, outVars, storeVars, wifiVars, httpVars, otaVars>>

\* the world an operation starts from, and its write-back
World == [cfg |-> g_cfg, st |-> g_state, level |-> gpio_level, duty |-> ledc_duty,
          calls |-> {}, led |-> g_web_led_enabled]

SetWorld(w) ==
    /\ g_cfg' = w.cfg
    /\ g_state' = w.st
    /\ gpio_level' = w.level
    /\ ledc_duty' = w.duty
    /\ drv_calls' = w.calls
    /\ g_web_led_enabled' = w.led

NoManifest == [parsed |-> FALSE, algorithm |-> JAbsent, sha256 |-> JAbsent, version |-> JAbsent,
               device_type |-> JAbsent, signature |-> JAbsent]
NoReq == [ep |-> "none"]
NoResp == [code |-> 0, body |-> ""]
OldImage == <<9, 9>>

\* RAM after reset: the static initializers; flash (nvs, partitions) is kept
RamInit ==
    /\ pc = "load"
    /\ g_cfg = DefaultCfg
    /\ g_state = ZeroState
    /\ gpio_level = [p \in 0..MAX_GPIO |-> 0]
    /\ ledc_duty = [c \in 0..5 |-> 0]
    /\ drv_calls = {}
    /\ g_web_led_enabled = FALSE
    /\ g_server = FALSE
    /\ load_path = "none"
    /\ g_wifi_events = {}
    /\ g_sta_fail_count = 0
    /\ g_last_wifi_disc_reason = 0
    /\ wifi_mode = "null"
    /\ wifi_started = FALSE
    /\ sta_link = "idle"
    /\ ap_auth = "none"
    /\ ap_starts = 0
    /\ wifi_calls = <<>>
    /\ evq = <<>>
    /\ resp = NoResp
    /\ req = NoReq
    /\ ota_pc = "idle"
    /\ firmware_url_copy = <<>>
    /\ manifest_buf = NoManifest
    /\ expected_sha = <<>>
    /\ ota_handle = "none"
    /\ fw_rest = <<>>
    /\ sha_ctx = <<>>
    /\ fetches = {}

\* power-on with the given flash contents
PowerOn(stores) ==
    /\ RamInit
    /\ boots = 1
    /\ radio_events = 0
    /\ req_count = 0
    /\ nvs \in stores
    /\ part_data = OldImage
    /\ boot_part = "running"

(***************************************************************************)
(* app_main.                                                               *)
(***************************************************************************)
Boot_LoadConfig ==
    /\ pc = "load"
    /\ \E open_ok \in BOOLEAN, read1_ok \in BOOLEAN, read2_ok \in BOOLEAN, save_ok \in BOOLEAN :
           LET r == load_config_from_nvs(g_cfg, nvs, open_ok, read1_ok, read2_ok, save_ok)
           IN /\ g_cfg' = r.cfg
              /\ nvs' = r.nvs
              /\ load_path' = r.path
    /\ pc' = "init_outputs"
    /\ UNCHANGED <<boots, g_server, g_state, gpio_level, ledc_duty, drv_calls, g_web_led_enabled,
                   wifiVars, httpVars, otaVars>>

Boot_InitOutputs ==
    /\ pc = "init_outputs"
    /\ SetWorld(init_outputs(World))
    /\ pc' = "wifi"
    /\ UNCHANGED <<boots, g_server, storeVars, wifiVars, httpVars, otaVars>>

(***************************************************************************)
(* The connectivity manager.                                               *)
(***************************************************************************)
\* copy_wifi_field: strnlen(src, dst_size - 1) characters are copied
copy_wifi_field(src, dst_size) == Prefix(src, dst_size - 1)

Event(id, reason) == [id |-> id, reason |-> reason]

\* mutant: esp_wifi_connect() starts an attempt in access-point mode too
EspWifiConnect_AnyMode ==
    IF wifi_started /\ sta_link = "idle" THEN "connecting" ELSE sta_link

\* esp_wifi_connect(): starts an attempt when the started station is idle
EspWifiConnect ==
    IF wifi_mode = "sta" /\ wifi_started /\ sta_link = "idle" THEN "connecting" ELSE sta_link

\* mutant: the access point always keeps WPA2-PSK
ApAuthMode_AlwaysWpa2(pass_len) == "wpa2"

ApAuthMode(pass_len) == IF pass_len < AP_MIN_PASS_LEN THEN "open" ELSE "wpa2"

\* the driver calls of start_wifi_station_or_ap before its wait (lines 1313..1316)
StaStartCalls == <<"set_mode_sta", "set_config_sta", "start">>

\* the driver calls of start_wifi_ap_fallback (lines 1258..1260)
ApStartCalls == <<"set_mode_ap", "set_config_ap", "start">>

\* mutant: the station is not stopped before the fallback
StopBeforeFallback_Skip(calls) == calls

\* esp_wifi_stop() when the wait ended without the connected bit (line 1322)
StopBeforeFallback(calls) == Append(calls, "stop")

\* start_wifi_ap_fallback; calls are the driver calls made before it
StartWifiApFallback(calls) ==
    LET cfg1 == [g_cfg EXCEPT !.ap_ssid = sanitize_wifi_field(@),
                              !.ap_pass = sanitize_wifi_field(@)]
        pass_len == Len(copy_wifi_field(cfg1.ap_pass, 64))
    IN /\ g_cfg' = cfg1
       /\ ap_auth' = ApAuthMode(pass_len)
       /\ wifi_mode' = "ap"
       /\ wifi_started' = TRUE
       /\ sta_link' = "idle"
       /\ ap_starts' = ap_starts + 1
       /\ wifi_calls' = calls \o ApStartCalls

\* start_wifi_station_or_ap up to the wait (or through the fallback when no SSID is set)
Boot_StartWifi ==
    /\ pc = "wifi"
    /\ IF Len(g_cfg.wifi_ssid) = 0
       THEN /\ StartWifiApFallback(wifi_calls)
            /\ pc' = "http"
            /\ evq' = evq
       ELSE /\ g_cfg' = [g_cfg EXCEPT !.wifi_ssid = sanitize_wifi_field(@),
                                      !.wifi_pass = sanitize_wifi_field(@)]
            /\ wifi_mode' = "sta"
            /\ wifi_started' = TRUE
            /\ wifi_calls' = wifi_calls \o StaStartCalls
            /\ evq' = Append(evq, Event("STA_START", 0))
            /\ pc' = "wait"
            /\ UNCHANGED <<sta_link, ap_auth, ap_starts>>
    /\ UNCHANGED <<boots, g_server, g_state, gpio_level, ledc_duty, drv_calls, g_web_led_enabled,
                   storeVars, g_wifi_events, g_sta_fail_count, g_last_wifi_disc_reason,
                   radio_events, httpVars, otaVars>>

\* mutant: the wait's result is ignored and the station is kept
WaitConnected_Always(bits) == TRUE

WaitConnected(bits) == "CONNECTED" \in bits

\* xEventGroupWaitBits returns because a bit is set
Boot_WaitBits ==
    /\ pc = "wait"
    /\ g_wifi_events # {}
    /\ IF WaitConnected(g_wifi_events)
       THEN UNCHANGED <<g_cfg, wifi_mode, wifi_started, sta_link, ap_auth, ap_starts, wifi_calls>>
       ELSE StartWifiApFallback(StopBeforeFallback(wifi_calls))
    /\ pc' = "http"
    /\ UNCHANGED <<boots, g_server, g_state, gpio_level, ledc_duty, drv_calls, g_web_led_enabled,
                   storeVars, g_wifi_events, g_sta_fail_count, g_last_wifi_disc_reason, evq,
                   radio_events, httpVars, otaVars>>

\* mutant: the wait has no timeout (portMAX_DELAY)
WaitExpires_Never(bits) == FALSE

\* the wait of pdMS_TO_TICKS(15000) runs out when neither bit has been set
WaitExpires(bits) == bits = {}

\* xEventGroupWaitBits returns after 15 s with no bit set
Boot_WaitTimeout ==
    /\ pc = "wait"
    /\ WaitExpires(g_wifi_events)
    /\ StartWifiApFallback(StopBeforeFallback(wifi_calls))
    /\ pc' = "http"
    /\ UNCHANGED <<boots, g_server, g_state, gpio_level, ledc_duty, drv_calls, g_web_led_enabled,
                   storeVars, g_wifi_events, g_sta_fail_count, g_last_wifi_disc_reason, evq,
                   radio_events, httpVars, otaVars>>

\* start_http_server
Boot_StartHttp ==
    /\ pc = "http"
    /\ \E started \in BOOLEAN :
           /\ g_server' = started
           /\ pc' = IF started THEN "serving" ELSE "no_server"
           /\ SetWorld(IF started THEN set_web_status_led(setup_web_status_led(World), TRUE)
                       ELSE set_web_status_led(World, FALSE))
    /\ UNCHANGED <<boots, storeVars, wifiVars, httpVars, otaVars>>

\* mutant: an acquired address does not reset the retry counter
HandleEvent_KeepCount ==
    /\ evq # <<>>
    /\ LET e == Head(evq) IN
       /\ evq' = Tail(evq)
       /\ IF e.id = "STA_START" THEN
              /\ sta_link' = EspWifiConnect
              /\ UNCHANGED <<g_wifi_events, g_sta_fail_count, g_last_wifi_disc_reason>>
          ELSE IF e.id = "STA_DISCONNECTED" THEN
              /\ g_last_wifi_disc_reason' = e.reason
              /\ g_sta_fail_count' = g_sta_fail_count + 1
              /\ IF g_sta_fail_count + 1 < STA_MAX_RETRY
                 THEN /\ sta_link' = EspWifiConnect
                      /\ UNCHANGED g_wifi_events
                 ELSE /\ g_wifi_events' = g_wifi_events \cup {"FAIL"}
                      /\ UNCHANGED sta_link
          ELSE
              /\ g_sta_fail_count' = g_sta_fail_count
              /\ g_last_wifi_disc_reason' = 0
              /\ g_wifi_events' = g_wifi_events \cup {"CONNECTED"}
              /\ UNCHANGED sta_link
    /\ UNCHANGED <<pc, boots, g_server, outVars, storeVars, wifi_mode, wifi_started, ap_auth,
                   ap_starts, wifi_calls, radio_events, httpVars, otaVars>>

\* mutant: the fifth disconnect still reconnects
HandleEvent_RetryAlways ==
    /\ evq # <<>>
    /\ LET e == Head(evq) IN
       /\ evq' = Tail(evq)
       /\ IF e.id = "STA_START" THEN
              /\ sta_link' = EspWifiConnect
              /\ UNCHANGED <<g_wifi_events, g_sta_fail_count, g_last_wifi_disc_reason>>
          ELSE IF e.id = "STA_DISCONNECTED" THEN
              /\ g_last_wifi_disc_reason' = e.reason
              /\ g_sta_fail_count' = g_sta_fail_count + 1
              /\ IF g_sta_fail_count + 1 <= STA_MAX_RETRY
                 THEN /\ sta_link' = EspWifiConnect
                      /\ UNCHANGED g_wifi_events
                 ELSE /\ g_wifi_events' = g_wifi_events \cup {"FAIL"}
                      /\ UNCHANGED sta_link
          ELSE
              /\ g_sta_fail_count' = 0
              /\ g_last_wifi_disc_reason' = 0
              /\ g_wifi_events' = g_wifi_events \cup {"CONNECTED"}
              /\ UNCHANGED sta_link
    /\ UNCHANGED <<pc, boots, g_server, outVars, storeVars, wifi_mode, wifi_started, ap_auth,
                   ap_starts, wifi_calls, radio_events, httpVars, otaVars>>

\* wifi_event_handler, run by the event loop on the oldest posted event
HandleEvent ==
    /\ evq # <<>>
    /\ LET e == Head(evq) IN
       /\ evq' = Tail(evq)
       /\ IF e.id = "STA_START" THEN
              /\ sta_link' = EspWifiConnect
              /\ UNCHANGED <<g_wifi_events, g_sta_fail_count, g_last_wifi_disc_reason>>
          ELSE IF e.id = "STA_DISCONNECTED" THEN
              /\ g_last_wifi_disc_reason' = e.reason
              /\ g_sta_fail_count' = g_sta_fail_count + 1
              /\ IF g_sta_fail_count + 1 < STA_MAX_RETRY
                 THEN /\ sta_link' = EspWifiConnect
                      /\ UNCHANGED g_wifi_events
                 ELSE /\ g_wifi_events' = g_wifi_events \cup {"FAIL"}
                      /\ UNCHANGED sta_link
          ELSE
              /\ g_sta_fail_count' = 0
              /\ g_last_wifi_disc_reason' = 0
              /\ g_wifi_events' = g_wifi_events \cup {"CONNECTED"}
              /\ UNCHANGED sta_link
    /\ UNCHANGED <<pc, boots, g_server, outVars, storeVars, wifi_mode, wifi_started, ap_auth,
                   ap_starts, wifi_calls, radio_events, httpVars, otaVars>>

DiscReasons == {2, 201}

\* the radio: a connection attempt succeeds and the DHCP client (or static IP) yields an address
RadioGotIp ==
    /\ wifi_started /\ wifi_mode = "sta" /\ sta_link = "connecting"
    /\ radio_events < MaxRadioEvents
    /\ sta_link' = "up"
    /\ evq' = Append(evq, Event("STA_GOT_IP", 0))
    /\ radio_events' = radio_events + 1
    /\ UNCHANGED <<pc, boots, g_server, outVars, storeVars, g_wifi_events, g_sta_fail_count,
                   g_last_wifi_disc_reason, wifi_mode, wifi_started, ap_auth, ap_starts, wifi_calls,
                   httpVars, otaVars>>

\* the radio: a connection attempt fails, or an established link is lost
RadioDisconnected ==
    /\ wifi_started /\ wifi_mode = "sta" /\ sta_link \in {"connecting", "up"}
    /\ radio_events < MaxRadioEvents
    /\ sta_link' = "idle"
    /\ \E reason \in DiscReasons : evq' = Append(evq, Event("STA_DISCONNECTED", reason))
    /\ radio_events' = radio_events + 1
    /\ UNCHANGED <<pc, boots, g_server, outVars, storeVars, g_wifi_events, g_sta_fail_count,
                   g_last_wifi_disc_reason, wifi_mode, wifi_started, ap_auth, ap_starts, wifi_calls,
                   httpVars, otaVars>>

\* a power cycle or reset: RAM starts over, flash is kept
Reboot ==
    /\ pc \in {"serving", "no_server", "restart"}
    /\ boots < MaxBoots
    /\ boots' = boots + 1
    /\ pc' = "load"
    /\ g_cfg' = DefaultCfg
    /\ g_state' = ZeroState
    /\ gpio_level' = [p \in 0..MAX_GPIO |-> 0]
    /\ ledc_duty' = [c \in 0..5 |-> 0]
    /\ drv_calls' = {}
    /\ g_web_led_enabled' = FALSE
    /\ g_server' = FALSE
    /\ load_path' = "none"
    /\ g_wifi_events' = {}
    /\ g_sta_fail_count' = 0
    /\ g_last_wifi_disc_reason' = 0
    /\ wifi_mode' = "null"
    /\ wifi_started' = FALSE
    /\ sta_link' = "idle"
    /\ ap_auth' = "none"
    /\ ap_starts' = 0
    /\ wifi_calls' = <<>>
    /\ evq' = <<>>
    /\ resp' = NoResp
    /\ req' = NoReq
    /\ ota_pc' = "idle"
    /\ firmware_url_copy' = <<>>
    /\ manifest_buf' = NoManifest
    /\ expected_sha' = <<>>
    /\ ota_handle' = "none"
    /\ fw_rest' = <<>>
    /\ sha_ctx' = <<>>
    /\ fetches' = {}
    /\ UNCHANGED <<nvs, radio_events, req_count, part_data, boot_part>>

(***************************************************************************)
(* The HTTP handlers.  A request is [body, ...fields]: body is "empty"     *)
(* (nothing received), "garbage" (not JSON) or "json".                     *)
(***************************************************************************)
Resp(code, body) == [code |-> code, body |-> body]

\* mutant: any string passcode is accepted
check_passcode_AnyString(cfg, root) == cJSON_IsString(root.passcode)

check_passcode(cfg, root) == cJSON_IsString(root.passcode) /\ root.passcode.s = cfg.passcode

\* what every handler does before its own work: NoResp when the request is let through
Gate(cfg, root) ==
    IF root.body = "empty" THEN Resp(400, "bad payload")
    ELSE IF root.body = "garbage" THEN Resp(400, "json parse failed")
    ELSE IF ~check_passcode(cfg, root) THEN Resp(401, "invalid passcode")
    ELSE NoResp

\* the server is registered and no update is running
Listening == pc = "serving" /\ g_server /\ ota_pc = "idle"

Serving == Listening /\ req_count < MaxReqs

pair_handler(root) ==
    /\ Serving
    /\ req' = [ep |-> "pair", root |-> root]
    /\ req_count' = req_count + 1
    /\ resp' = IF Gate(g_cfg, root) # NoResp THEN Gate(g_cfg, root)
               ELSE Resp(200, "{\"paired\":true}")
    /\ drv_calls' = {}
    /\ UNCHANGED <<pc, boots, g_server, g_cfg, g_state, gpio_level, ledc_duty, g_web_led_enabled,
                   storeVars, wifiVars, otaVars>>

control_request(root) ==
    /\ Listening
    /\ req' = [ep |-> "control", root |-> root]
    /\ req_count' = req_count + 1
    /\ IF Gate(g_cfg, root) # NoResp
       THEN /\ resp' = Gate(g_cfg, root)
            /\ SetWorld(World)
       ELSE LET r == handle_control(World, root)
            IN /\ SetWorld(r.w)
               /\ resp' = IF r.ok THEN Resp(200, "{\"ok\":true}")
                          ELSE Resp(400, "unsupported channel/state")
    /\ UNCHANGED <<pc, boots, g_server, storeVars, wifiVars, otaVars>>

control_handler(root) == Serving /\ control_request(root)

gpio_test_handler(root) ==
    /\ Serving
    /\ req' = [ep |-> "test_gpio", root |-> root]
    /\ req_count' = req_count + 1
    /\ IF Gate(g_cfg, root) # NoResp
       THEN /\ resp' = Gate(g_cfg, root)
            /\ SetWorld(World)
       ELSE IF ~cJSON_IsNumber(root.gpio) \/ ~cJSON_IsNumber(root.value)
       THEN /\ resp' = Resp(400, "gpio and value are required numbers")
            /\ SetWorld(World)
       ELSE IF root.gpio.n < 0 \/ root.gpio.n > MAX_GPIO \/ ~GPIO_IS_VALID_OUTPUT_GPIO(root.gpio.n)
       THEN /\ resp' = Resp(400, "invalid output gpio")
            /\ SetWorld(World)
       ELSE /\ resp' = Resp(200, "{\"ok\":true}")
            /\ SetWorld(gpio_set_level(gpio_reset_output(World, root.gpio.n), root.gpio.n,
                                       IF root.value.n # 0 THEN 1 ELSE 0))
    /\ UNCHANGED <<pc, boots, g_server, storeVars, wifiVars, otaVars>>

\* mutant: the member's valuestring is copied whatever its type
CfgStr_AnyType(root, field, old) == safe_strcpy(root[field].s, MAX_STR)

\* the merge of the request's fields into g_cfg (lines 923..946)
CfgStr(root, field, old) ==
    IF cJSON_IsString(root[field]) THEN safe_strcpy(root[field].s, MAX_STR) ELSE old

\* mutant: every numeric relay_gpio item is stored as given
CfgPin_Unchecked(it, old) == IF cJSON_IsNumber(it) THEN it.n ELSE old

CfgPin(it, old) ==
    IF cJSON_IsNumber(it) /\ (it.n = -1 \/ valid_relay_gpio_int(it.n)) THEN it.n ELSE old

MergeConfig(cfg, root) ==
    [cfg EXCEPT
        !.name = CfgStr(root, "name", @),
        !.type = CfgStr(root, "type", @),
        !.passcode = CfgStr(root, "new_passcode", @),
        !.wifi_ssid = CfgStr(root, "wifi_ssid", @),
        !.wifi_pass = CfgStr(root, "wifi_pass", @),
        !.ap_ssid = CfgStr(root, "ap_ssid", @),
        !.ap_pass = CfgStr(root, "ap_pass", @),
        !.relay_count = IF cJSON_IsNumber(root.relay_count) THEN root.relay_count.n ELSE @,
        !.relay_gpio = IF cJSON_IsArray(root.relay_gpio)
                       THEN [i \in 0..(MAX_RELAYS - 1) |->
                                CfgPin(cJSON_GetArrayItem(root.relay_gpio, i), @[i])]
                       ELSE @,
        !.ota_key = CfgStr(root, "ota_key", @),
        !.use_static_ip = IF cJSON_IsBool(root.use_static_ip)
                          THEN cJSON_IsTrue(root.use_static_ip) ELSE @,
        !.static_ip = CfgStr(root, "static_ip", @),
        !.gateway = CfgStr(root, "gateway", @),
        !.subnet_mask = CfgStr(root, "subnet_mask", @)]

\* mutant: the relays past relay_count keep their logical state
RECURSIVE ReapplyRelays_KeepState(_, _)
ReapplyRelays_KeepState(w, i) ==
    IF i >= MAX_RELAYS THEN w
    ELSE IF i < w.cfg.relay_count
    THEN Strict({ReapplyRelays_KeepState(n, i + 1) : n \in {apply_relay(w, i, w.st.relay[i])}})
    ELSE Strict({ReapplyRelays_KeepState(n, i + 1) :
                    n \in {IF valid_relay_gpio_int(w.cfg.relay_gpio[i])
                           THEN gpio_set_level(w, w.cfg.relay_gpio[i], 0) ELSE w}})

\* lines 956..965
RECURSIVE ReapplyRelays(_, _)
ReapplyRelays(w, i) ==
    IF i >= MAX_RELAYS THEN w
    ELSE IF i < w.cfg.relay_count
    THEN Strict({ReapplyRelays(n, i + 1) : n \in {apply_relay(w, i, w.st.relay[i])}})
    ELSE Strict({ReapplyRelays([n EXCEPT !.st.relay[i] = FALSE], i + 1) :
                    n \in {IF valid_relay_gpio_int(w.cfg.relay_gpio[i])
                           THEN gpio_set_level(w, w.cfg.relay_gpio[i], 0) ELSE w}})

\* mutant: the Wi-Fi text fields are stored as received
ConfigSanitize_NoText(cfg) == sanitize_relay_gpio_map(sanitize_relay_count(cfg))

\* lines 947..952
ConfigSanitize(cfg) == sanitize_relay_gpio_map(sanitize_relay_count(sanitize_wifi_fields(cfg)))

\* the authorised part of config_handler up to the save (lines 908..965)
ApplyConfig(w, root, server) ==
    Strict({ReapplyRelays(a3, 0) :
        a3 \in {set_web_status_led(setup_web_status_led(a2), server) :
        a2 \in {configure_output_pins_only(a1) :
        a1 \in {[w EXCEPT !.cfg = ConfigSanitize(MergeConfig(w.cfg, root))]}}}})

config_handler(root) ==
    /\ Serving
    /\ req' = [ep |-> "config", root |-> root]
    /\ req_count' = req_count + 1
    /\ IF Gate(g_cfg, root) # NoResp
       THEN /\ resp' = Gate(g_cfg, root)
            /\ SetWorld(World)
            /\ nvs' = nvs
       ELSE LET w == ApplyConfig(World, root, g_server)
            IN /\ SetWorld(w)
               /\ \E save_ok \in BOOLEAN : nvs' = save_config_to_nvs(w.cfg, nvs, save_ok)
               /\ resp' = Resp(200, "{\"saved\":true}")
    /\ UNCHANGED <<pc, boots, g_server, load_path, wifiVars, otaVars>>

(***************************************************************************)
(* The OTA pipeline.                                                       *)
(*                                                                         *)
(* The two digests are modelled by encodings that are collision-free on    *)
(* the inputs used here: Sha256 keeps the length and the first bytes of    *)
(* the data, HmacSha256 the lengths, the ends and a positional checksum of *)
(* key and message.                                                        *)
(***************************************************************************)
HexDigits == <<"0", "1", "2", "3", "4", "5", "6", "7", "8", "9", "a", "b", "c", "d", "e", "f">>

\* hex_encode of len bytes into a buffer that is large enough (65 for 32 bytes)
hex_encode(input) ==
    [i \in 1..(2 * Len(input)) |->
        IF i % 2 = 1 THEN HexDigits[((input[(i + 1) \div 2] \div 16) % 16) + 1]
        ELSE HexDigits[(input[i \div 2] % 16) + 1]]

\* mbedtls_sha256 over the bytes fed so far: a stand-in that is a function of the input
\* and keeps every input used here apart (its length and its first 31 bytes)
Sha256(data) ==
    [i \in 1..SHA256_LEN |-> IF i = 1 THEN Len(data) % 256
                             ELSE IF i - 1 <= Len(data) THEN data[i - 1] % 256 ELSE 0]

\* mbedtls_md_hmac(SHA256, key, msg): a stand-in that is a function of key and message
\* (both lengths, the head of the key, the head and the tail of the message)
HmacSha256(key, msg) ==
    [i \in 1..SHA256_LEN |->
        CASE i = 1 -> Len(msg) % 256
          [] i = 2 -> Len(msg) \div 256
          [] i = 3 -> Len(key) % 256
          [] i \in 4..5 -> IF i - 3 <= Len(key) THEN Ord(key[i - 3]) ELSE 0
          [] i \in 6..15 -> IF i - 5 <= Len(msg) THEN Ord(msg[i - 5]) ELSE 0
          [] OTHER -> IF Len(msg) - (i - 16) >= 1 THEN Ord(msg[Len(msg) - (i - 16)]) ELSE 0]

S_colon == <<":">>
S_hmac_sha256 == <<"h", "m", "a", "c", "-", "s", "h", "a", "2", "5", "6">>
S_any == <<"a", "n", "y">>

\* the signed message as the manifest format defines it
SignedMessage(sha, version, device_type) == sha \o S_colon \o version \o S_colon \o device_type

\* compute_manifest_signature: the message is formatted into msg[256]
compute_manifest_signature(cfg, sha, version, device_type) ==
    hex_encode(HmacSha256(cfg.ota_key,
                          Prefix(SignedMessage(sha, version, device_type), SIG_MSG_SIZE - 1)))

\* mutant: the signature is not compared
SignatureMatches_Skip(expected_sig, signature) == TRUE

SignatureMatches(expected_sig, signature) == expected_sig = signature

\* mutant: the device type is not compared
DeviceTypeAccepted_Skip(cfg, device_type) == TRUE

DeviceTypeAccepted(cfg, device_type) == device_type = cfg.type \/ device_type = S_any

\* verify_manifest: [ok, sha_out]; sha_out is written only on success (char[65])
verify_manifest(cfg, doc) ==
    IF ~doc.parsed THEN [ok |-> FALSE, sha_out |-> <<>>]
    ELSE IF ~cJSON_IsString(doc.algorithm) \/ ~cJSON_IsString(doc.sha256)
            \/ ~cJSON_IsString(doc.version) \/ ~cJSON_IsString(doc.device_type)
            \/ ~cJSON_IsString(doc.signature)
    THEN [ok |-> FALSE, sha_out |-> <<>>]
    ELSE IF doc.algorithm.s # S_hmac_sha256 THEN [ok |-> FALSE, sha_out |-> <<>>]
    ELSE IF ~DeviceTypeAccepted(cfg, doc.device_type.s) THEN [ok |-> FALSE, sha_out |-> <<>>]
    ELSE IF SignatureMatches(compute_manifest_signature(cfg, doc.sha256.s, doc.version.s,
                                                        doc.device_type.s), doc.signature.s)
    THEN [ok |-> TRUE, sha_out |-> safe_strcpy(doc.sha256.s, 2 * SHA256_LEN + 1)]
    ELSE [ok |-> FALSE, sha_out |-> <<>>]

\* the end of a request: the handler's locals are gone
OtaFinish(code, body) ==
    /\ resp' = Resp(code, body)
    /\ ota_pc' = "idle"

\* ota_apply_handler up to the manifest download (lines 1172..1193)
ota_apply_handler(root) ==
    /\ Serving
    /\ req' = [ep |-> "ota_apply", root |-> root]
    /\ req_count' = req_count + 1
    /\ manifest_buf' = NoManifest
    /\ expected_sha' = <<>>
    /\ ota_handle' = "none"
    /\ fw_rest' = <<>>
    /\ sha_ctx' = <<>>
    /\ fetches' = {}
    /\ drv_calls' = {}
    /\ IF Gate(g_cfg, root) # NoResp
       THEN /\ resp' = Gate(g_cfg, root)
            /\ UNCHANGED <<ota_pc, firmware_url_copy>>
       ELSE IF ~cJSON_IsString(root.firmware_url) \/ ~cJSON_IsString(root.manifest_url)
       THEN /\ resp' = Resp(400, "firmware_url and manifest_url required")
            /\ UNCHANGED <<ota_pc, firmware_url_copy>>
       ELSE /\ resp' = NoResp
            /\ firmware_url_copy' = safe_strcpy(root.firmware_url.s, 256)
            /\ ota_pc' = "manifest"
    /\ UNCHANGED <<pc, boots, g_server, g_cfg, g_state, gpio_level, ledc_duty, g_web_led_enabled,
                   storeVars, wifiVars, part_data, boot_part>>

\* http_get_to_buffer(manifest_url) and verify_manifest (lines 1195..1203);
\* doc is what the URL delivered, NoManifest standing for text that is not JSON
OtaManifest(got, doc) ==
    /\ ota_pc = "manifest"
    /\ fetches' = fetches \cup {[what |-> "manifest", url |-> safe_strcpy(req.root.manifest_url.s, 256)]}
    /\ IF ~got
       THEN /\ OtaFinish(500, "manifest download failed")
            /\ UNCHANGED <<manifest_buf, expected_sha>>
       ELSE /\ manifest_buf' = doc
            /\ IF verify_manifest(g_cfg, doc).ok
               THEN /\ expected_sha' = verify_manifest(g_cfg, doc).sha_out
                    /\ ota_pc' = "begin"
                    /\ resp' = resp
               ELSE /\ OtaFinish(401, "manifest signature verification failed")
                    /\ UNCHANGED expected_sha
    /\ UNCHANGED <<pc, boots, g_server, outVars, storeVars, wifiVars, req, req_count,
                   firmware_url_copy, ota_handle, part_data, boot_part, fw_rest, sha_ctx>>

\* esp_ota_get_next_update_partition and esp_ota_begin (lines 1094..1104):
\* a successful begin with OTA_SIZE_UNKNOWN erases the partition
OtaBegin(ok) ==
    /\ ota_pc = "begin"
    /\ IF ok
       THEN /\ ota_handle' = "open"
            /\ part_data' = <<>>
            /\ ota_pc' = "open"
            /\ resp' = resp
       ELSE /\ OtaFinish(500, "ota apply failed")
            /\ UNCHANGED <<ota_handle, part_data>>
    /\ UNCHANGED <<pc, boots, g_server, outVars, storeVars, wifiVars, req, req_count,
                   firmware_url_copy, manifest_buf, expected_sha, boot_part, fw_rest, sha_ctx,
                   fetches>>

\* esp_http_client_init / esp_http_client_open on the firmware URL (lines 1106..1120)
OtaHttpOpen(ok, stream) ==
    /\ ota_pc = "open"
    /\ IF ok
       THEN /\ fetches' = fetches \cup {[what |-> "firmware", url |-> firmware_url_copy]}
            /\ fw_rest' = stream
            /\ sha_ctx' = <<>>
            /\ ota_pc' = "stream"
            /\ resp' = resp
            /\ UNCHANGED ota_handle
       ELSE /\ ota_handle' = "released"
            /\ OtaFinish(500, "ota apply failed")
            /\ UNCHANGED <<fetches, fw_rest, sha_ctx>>
    /\ UNCHANGED <<pc, boots, g_server, outVars, storeVars, wifiVars, req, req_count,
                   firmware_url_copy, manifest_buf, expected_sha, part_data, boot_part>>

\* one turn of the read loop (lines 1122..1143)
OtaRead(read_ok, write_ok) ==
    /\ ota_pc = "stream"
    /\ IF ~read_ok
       THEN /\ ota_handle' = "released"
            /\ OtaFinish(500, "ota apply failed")
            /\ UNCHANGED <<fw_rest, sha_ctx, part_data>>
       ELSE IF fw_rest = <<>>
       THEN /\ ota_pc' = "check"
            /\ resp' = resp
            /\ UNCHANGED <<ota_handle, fw_rest, sha_ctx, part_data>>
       ELSE /\ sha_ctx' = sha_ctx \o Head(fw_rest)
            /\ fw_rest' = Tail(fw_rest)
            /\ IF write_ok
               THEN /\ part_data' = part_data \o Head(fw_rest)
                    /\ UNCHANGED <<ota_pc, resp, ota_handle>>
               ELSE /\ ota_handle' = "released"
                    /\ OtaFinish(500, "ota apply failed")
                    /\ UNCHANGED part_data
    /\ UNCHANGED <<pc, boots, g_server, outVars, storeVars, wifiVars, req, req_count,
                   firmware_url_copy, manifest_buf, expected_sha, boot_part, fetches>>

\* mutant: the digest is not compared
ShaMatches_Skip(sha_hex, expected) == TRUE

ShaMatches(sha_hex, expected) == sha_hex = expected

\* mutant: the result of esp_ota_set_boot_partition is ignored
OtaCommit_RestartUnset(end_ok, boot_ok) ==
    /\ ota_pc = "check"
    /\ ota_handle' = "released"
    /\ IF ~ShaMatches(hex_encode(Sha256(sha_ctx)), expected_sha) \/ ~end_ok
       THEN /\ OtaFinish(500, "ota apply failed")
            /\ UNCHANGED <<pc, boot_part>>
       ELSE /\ boot_part' = IF boot_ok THEN "update" ELSE boot_part
            /\ pc' = "restart"
            /\ ota_pc' = "restarting"
            /\ resp' = resp
    /\ UNCHANGED <<boots, g_server, outVars, storeVars, wifiVars, req, req_count,
                   firmware_url_copy, manifest_buf, expected_sha, part_data, fw_rest, sha_ctx,
                   fetches>>

\* the integrity check and the commit (lines 1145..1169)
OtaCommit(end_ok, boot_ok) ==
    /\ ota_pc = "check"
    /\ ota_handle' = "released"
    /\ IF ~ShaMatches(hex_encode(Sha256(sha_ctx)), expected_sha) \/ ~end_ok \/ ~boot_ok
       THEN /\ OtaFinish(500, "ota apply failed")
            /\ UNCHANGED <<pc, boot_part>>
       ELSE /\ boot_part' = "update"
            /\ pc' = "restart"
            /\ ota_pc' = "restarting"
            /\ resp' = resp
    /\ UNCHANGED <<boots, g_server, outVars, storeVars, wifiVars, req, req_count,
                   firmware_url_copy, manifest_buf, expected_sha, part_data, fw_rest, sha_ctx,
                   fetches>>

(***************************************************************************)
(* Inputs.                                                                 *)
(***************************************************************************)
Pins8(a, b, c, d, e, f, g, h) ==
    [i \in 0..(MAX_RELAYS - 1) |->
        CASE i = 0 -> a [] i = 1 -> b [] i = 2 -> c [] i = 3 -> d
          [] i = 4 -> e [] i = 5 -> f [] i = 6 -> g [] OTHER -> h]

T_h == <<"h">>
T_dirty == <<" ", "a", "\n", "b", "\t", " ">>
T_long == Rep("c", MAX_STR + 4)
T_pass5 == <<"1", "2", "3", "4", "5">>

\* records a current-schema firmware wrote, and records it did not
CurBlobPlain ==
    [DefaultCfg EXCEPT !.relay_count = 2, !.wifi_ssid = T_h, !.ap_pass = T_pass5]
CurBlobOdd ==
    [DefaultCfg EXCEPT !.name = <<"n", "\t">>, !.passcode = <<" ", "x">>, !.relay_count = 99,
                       !.relay_gpio = Pins8(99, 4, 5, -1, 34, 12, 0, 13),
                       !.wifi_ssid = <<" ", "h", "\n">>, !.ap_pass = <<" ", " ">>,
                       !.gateway = <<"1", " ">>]
CurBlobSta ==
    [DefaultCfg EXCEPT !.wifi_ssid = T_h, !.wifi_pass = <<"p">>]

LegacyOf(cfg, pins) ==
    [name |-> cfg.name, type |-> cfg.type, passcode |-> cfg.passcode,
     relay_gpio |-> [i \in 0..3 |-> pins[i + 1]],
     wifi_ssid |-> cfg.wifi_ssid, wifi_pass |-> cfg.wifi_pass, ap_ssid |-> cfg.ap_ssid,
     ap_pass |-> cfg.ap_pass, use_static_ip |-> cfg.use_static_ip, static_ip |-> cfg.static_ip,
     gateway |-> cfg.gateway, subnet_mask |-> cfg.subnet_mask, ota_key |-> cfg.ota_key]
LegBlobPlain ==
    LegacyOf([DefaultCfg EXCEPT !.name = <<"o", "l", "d">>, !.ota_key = <<"q">>,
                                !.use_static_ip = TRUE, !.static_ip = <<"1", ".", "2">>],
             <<4, 5, 12, 13>>)
LegBlobOdd ==
    LegacyOf([DefaultCfg EXCEPT !.wifi_ssid = <<" ", "h">>, !.type = <<"t", "\r">>],
             <<99, 5, 12, -1>>)

StoreNone == [kind |-> "none"]
StoreOther == [kind |-> "other"]
StoreCur(blob) == [kind |-> "current", blob |-> blob]
StoreLeg(blob) == [kind |-> "legacy", blob |-> blob]

CfgStores == {StoreNone, StoreOther, StoreCur(CurBlobPlain), StoreCur(CurBlobOdd),
              StoreLeg(LegBlobPlain), StoreLeg(LegBlobOdd)}

P_right == JStr(FW_DEFAULT_PASSCODE)
P_wrong == JStr(<<"y">>)
BadPasscodes == {P_wrong, JAbsent, JNum(1)}

EmptyCfgReq(pass) ==
    [body |-> "json", passcode |-> pass, name |-> JAbsent, type |-> JAbsent,
     new_passcode |-> JAbsent, wifi_ssid |-> JAbsent, wifi_pass |-> JAbsent, ap_ssid |-> JAbsent,
     ap_pass |-> JAbsent, relay_count |-> JAbsent, relay_gpio |-> JNoArr, ota_key |-> JAbsent,
     use_static_ip |-> JAbsent, static_ip |-> JAbsent, gateway |-> JAbsent,
     subnet_mask |-> JAbsent]

NumArr(s) == JArr([i \in 1..Len(s) |-> JNum(s[i])])
PinsInvalid == NumArr(<<2, 99, -1, -1, -1, -1, -1, -1>>)
PinsRepeated == NumArr(<<16, 16, 4, 4, 5, 34, 0, 12>>)
PinsAux == NumArr(<<23, 32, 21>>)
PinsMixed == JArr(<<JStr(T_h), JNum(13), JAbsent, JNum(-1), JNum(22), JNum(-7)>>)

CfgReqs ==
    {[EmptyCfgReq(P_right) EXCEPT ![k] = JStr(T_dirty)] : k \in {"name", "wifi_ssid", "ap_pass", "ota_key"}}
    \cup {[EmptyCfgReq(P_right) EXCEPT !.relay_count = c] : c \in {JNum(0), JNum(9)}}
    \cup {[EmptyCfgReq(P_right) EXCEPT !.relay_gpio = a] : a \in {PinsInvalid, PinsRepeated}}
    \cup {[EmptyCfgReq(P_right) EXCEPT !.wifi_ssid = JStr(T_long)],
          [EmptyCfgReq(P_right) EXCEPT !.relay_count = JNum(8), !.relay_gpio = PinsMixed],
          [EmptyCfgReq(P_right) EXCEPT !.relay_count = JStr(T_h), !.relay_gpio = PinsAux],
          [EmptyCfgReq(P_right) EXCEPT !.name = JNum(5), !.use_static_ip = JBool(TRUE)],
          [EmptyCfgReq(P_wrong) EXCEPT !.name = JStr(T_h), !.relay_count = JNum(1)],
          [EmptyCfgReq(JAbsent) EXCEPT !.body = "garbage"]}

CtlReq(pass, channel, state, value) ==
    [body |-> "json", passcode |-> pass, channel |-> channel, state |-> state, value |-> value,
     r |-> JAbsent, g |-> JAbsent, b |-> JAbsent, w |-> JAbsent]

RelayCh(digits) == JStr(S_relay \o digits)

CfgCtlReqs ==
    {CtlReq(P_right, RelayCh(<<"1">>), JStr(S_on), JAbsent),
     CtlReq(P_right, RelayCh(<<"8">>), JStr(S_toggle), JAbsent),
     CtlReq(P_wrong, JStr(S_light), JStr(S_on), JAbsent)}

(***************************************************************************)
(* SpecCfg: boots from each store content, with no access point in range,  *)
(* then serves /api/config and /api/control and may be power-cycled.       *)
(***************************************************************************)
InitCfg == PowerOn(CfgStores)

NextCfg ==
    \/ Boot_LoadConfig
    \/ Boot_InitOutputs
    \/ Boot_StartWifi
    \/ Boot_WaitTimeout
    \/ Boot_StartHttp
    \/ HandleEvent
    \/ Reboot
    \/ \E root \in CfgReqs : config_handler(root)
    \/ \E root \in CfgCtlReqs : control_handler(root)

SpecCfg == InitCfg /\ [][NextCfg]_vars

(***************************************************************************)
(* Properties of the configuration (SpecCfg).                              *)
(***************************************************************************)
Loaded == pc # "load"

AllowlistedOutputPin(p) == p \in (0..33) \ {20, 24, 28, 29, 30, 31} /\ p \in SAFE_SCAN_GPIOS

ActiveRelaySlots == {i \in 0..(MAX_RELAYS - 1) : i < g_cfg.relay_count /\ g_cfg.relay_gpio[i] # -1}

\* C7: once the configuration is loaded, and after any configuration or control request,
\* relay_count is in 1..8, every relay_gpio slot holds -1 or an output-capable allowlisted
\* pin, and slots 0..3 never hold -1.
C7_RelayMapSane ==
    Loaded =>
        /\ g_cfg.relay_count \in 1..MAX_RELAYS
        /\ \A i \in 0..(MAX_RELAYS - 1) :
               g_cfg.relay_gpio[i] = -1 \/ AllowlistedOutputPin(g_cfg.relay_gpio[i])
        /\ \A i \in 0..3 : g_cfg.relay_gpio[i] # -1

\* a configuration request that names a pin outside the allowlist and -1 for slots 2 and 3
\* was accepted, and the slots fell back to their default pins
C7_Witness ==
    /\ req.ep = "config"
    /\ resp.code = 200
    /\ req.root.relay_gpio = PinsInvalid
    /\ g_cfg.relay_gpio[0] = 2
    /\ g_cfg.relay_gpio[1] = RELAY2_PIN
    /\ g_cfg.relay_gpio[3] = RELAY4_PIN

\* C8: once the configuration is loaded, and after any configuration request, the pins of
\* the active relays (index below relay_count, pin not -1) are pairwise distinct.
C8_ActivePinsDistinct ==
    Loaded =>
        \A i \in ActiveRelaySlots, j \in ActiveRelaySlots :
            i # j => g_cfg.relay_gpio[i] # g_cfg.relay_gpio[j]

LegacyCopied(cfg, legacy) ==
    /\ \A f \in StrFields \ WifiFields : cfg[f] = Prefix(legacy[f], MAX_STR - 1)
    /\ \A f \in WifiFields : cfg[f] = sanitize_wifi_field(Prefix(legacy[f], MAX_STR - 1))
    /\ cfg.use_static_ip = legacy.use_static_ip

\* a load that finds a legacy record in the store and reads it
LegacyLoadStep ==
    /\ pc = "load"
    /\ pc' # "load"
    /\ nvs.kind = "legacy"
    /\ load_path' \in {"current", "legacy"}

\* C10: a load that reads a legacy record yields relay_count 4 and -1 in slots 4..7 with
\* the scalar and text fields copied, writes the migrated record back during that load,
\* and afterwards the record is read through the current-schema path.
C10_MigratedAndWrittenBack ==
    [][LegacyLoadStep =>
          /\ g_cfg'.relay_count = 4
          /\ \A i \in 4..(MAX_RELAYS - 1) : g_cfg'.relay_gpio[i] = -1
          /\ LegacyCopied(g_cfg', nvs.blob)
          /\ nvs'.kind = "current"]_vars

(***************************************************************************)
(* SpecWifi: boots with and without a station SSID while the radio         *)
(* connects, fails and drops the link.                                     *)
(***************************************************************************)
WifiStores == {StoreNone, StoreCur(CurBlobPlain), StoreCur(CurBlobSta)}

InitWifi == PowerOn(WifiStores)

NextWifi ==
    \/ Boot_LoadConfig
    \/ Boot_InitOutputs
    \/ Boot_StartWifi
    \/ Boot_WaitBits
    \/ Boot_WaitTimeout
    \/ Boot_StartHttp
    \/ HandleEvent
    \/ RadioGotIp
    \/ RadioDisconnected
    \/ Reboot

SpecWifi == InitWifi /\ [][NextWifi]_vars

\* start_wifi_station_or_ap has returned: nothing calls start_wifi_ap_fallback any more
WifiSetupDone == pc \in {"http", "serving", "no_server"}

\* C5: whenever five consecutive disconnect events have been handled with no address
\* obtained in between, the fallback access point is started, during the initial wait as
\* well as after the station had been connected.
C5_FallbackAfterFiveDisconnects ==
    (WifiSetupDone /\ g_sta_fail_count >= STA_MAX_RETRY) => ap_starts > 0

\* C6: the device is never left with the station link down, no reconnect to come (no
\* attempt running and no event waiting for the handler) and no access point started.
C6_NeverUnreachable ==
    ~(/\ WifiSetupDone
      /\ wifi_started /\ wifi_mode = "sta"
      /\ sta_link = "idle"
      /\ evq = <<>>
      /\ ap_starts = 0)

(***************************************************************************)
(* SpecOta: a device with the default configuration serves /api/ota/apply; *)
(* the manifest URL and the firmware URL deliver whatever their servers    *)
(* choose to.                                                              *)
(***************************************************************************)
ImageA == <<1, 2>>
ImageB == <<3>>
ShaHexOf(image) == hex_encode(Sha256(image))

S_sha256 == <<"s", "h", "a", "2", "5", "6">>
S_other == <<"o", "t", "h", "e", "r">>
T_key2 == <<"k", "2">>
V_short == <<"1">>
V_long == Rep("1", 200)

\* how a manifest's signature field was produced
SigOf(kind, sha, version, device_type) ==
    CASE kind = "device" ->
             JStr(compute_manifest_signature(DefaultCfg, sha, version, device_type))
      [] kind = "full" ->
             JStr(hex_encode(HmacSha256(DefaultCfg.ota_key,
                                        SignedMessage(sha, version, device_type))))
      [] kind = "other_key" ->
             JStr(hex_encode(HmacSha256(T_key2, SignedMessage(sha, version, device_type))))
      [] OTHER -> JAbsent

Manifest(algorithm, sha, version, device_type, kind) ==
    [parsed |-> TRUE, algorithm |-> algorithm, sha256 |-> JStr(sha), version |-> JStr(version),
     device_type |-> JStr(device_type), signature |-> SigOf(kind, sha, version, device_type)]

ManifestShas == {ShaHexOf(ImageA), ShaHexOf(ImageA) \o <<"0", "0">>, ShaHexOf(ImageB)}

Manifests ==
    {Manifest(a, sha, v, d, k) :
        a \in {JStr(S_hmac_sha256), JStr(S_sha256)}, sha \in ManifestShas,
        v \in {V_short, V_long}, d \in {FW_DEFAULT_TYPE, S_any, S_other},
        k \in {"device", "full", "other_key"}}
    \cup {Manifest(JNum(1), ShaHexOf(ImageA), V_short, S_any, "device"),
          Manifest(JStr(S_hmac_sha256), ShaHexOf(ImageA), V_short, S_any, "absent"),
          NoManifest}

\* what the firmware URL delivers, read by read
FwStreams == {<<ImageA>>, <<<<1>>, <<2>>>>, <<ImageB>>, <<>>}

OtaReq(body, pass, firmware_url, manifest_url) ==
    [body |-> body, passcode |-> pass, firmware_url |-> firmware_url,
     manifest_url |-> manifest_url]

U_fw == JStr(<<"f">>)
U_mf == JStr(<<"m">>)

OtaReqs ==
    {OtaReq("json", P_right, U_fw, U_mf), OtaReq("json", P_right, JAbsent, U_mf),
     OtaReq("json", P_right, U_fw, JNum(0)), OtaReq("json", P_wrong, U_fw, U_mf),
     OtaReq("json", JAbsent, U_fw, U_mf), OtaReq("empty", JAbsent, JAbsent, JAbsent)}

InitOta == PowerOn({StoreNone})

NextOta ==
    \/ Boot_LoadConfig
    \/ Boot_InitOutputs
    \/ Boot_StartWifi
    \/ Boot_StartHttp
    \/ \E root \in OtaReqs : ota_apply_handler(root)
    \/ \E got \in BOOLEAN, doc \in Manifests : OtaManifest(got, doc)
    \/ \E ok \in BOOLEAN : OtaBegin(ok)
    \/ \E ok \in BOOLEAN, stream \in FwStreams : OtaHttpOpen(ok, stream)
    \/ \E read_ok \in BOOLEAN, write_ok \in BOOLEAN : OtaRead(read_ok, write_ok)
    \/ \E end_ok \in BOOLEAN, boot_ok \in BOOLEAN : OtaCommit(end_ok, boot_ok)

SpecOta == InitOta /\ [][NextOta]_vars

(***************************************************************************)
(* Properties of the update pipeline (SpecOta).                            *)
(***************************************************************************)
FirmwareFetched == \E f \in fetches : f.what = "firmware"

\* the request in progress, or the last one, ended before ota_download_and_apply
AbortedBeforeApply == ota_pc = "idle" /\ ota_handle = "none" /\ ~FirmwareFetched

ManifestTextFields(doc) ==
    /\ doc.parsed
    /\ cJSON_IsString(doc.sha256) /\ cJSON_IsString(doc.version)
    /\ cJSON_IsString(doc.device_type)

\* the signature as the manifest format defines it, over the whole message
FormatSignature(doc) ==
    hex_encode(HmacSha256(g_cfg.ota_key,
                          SignedMessage(doc.sha256.s, doc.version.s, doc.device_type.s)))

\* C1: the update partition becomes the boot target (and the device restarts) only if the
\* manifest passed verification and the hex SHA-256 of the bytes streamed equals the
\* manifest's sha256 field; after a read error, a write error or a digest mismatch the
\* OTA handle is released and the boot target is not set.
C1_BootTargetOnlyWhenDigestEqualsManifest ==
    /\ boot_part = "update" =>
           /\ verify_manifest(g_cfg, manifest_buf).ok
           /\ hex_encode(Sha256(sha_ctx)) = manifest_buf.sha256.s
    /\ (ota_pc = "idle" /\ FirmwareFetched) =>
           (resp.code = 500 /\ ota_handle = "released" /\ boot_part = "running")

\* C2: if the signature recomputed as hex(HMAC-SHA256(ota_key, sha256:version:device_type))
\* differs from the manifest's signature field, the request ends before the update
\* partition is opened or written and before the firmware URL is fetched.
C2_SignatureMismatchAborts ==
    (ManifestTextFields(manifest_buf) /\ manifest_buf.signature # JStr(FormatSignature(manifest_buf)))
        => AbortedBeforeApply

\* C3: a manifest whose algorithm is not exactly "hmac-sha256", or whose device_type is
\* neither the configured type nor "any", is answered 401 before the firmware is fetched
\* and before the update partition is opened or written, valid signature or not.
C3_WrongAlgorithmOrTypeRejected ==
    [][(/\ ota_pc = "manifest"
        /\ manifest_buf'.parsed
        /\ \/ manifest_buf'.algorithm # JStr(S_hmac_sha256)
           \/ manifest_buf'.device_type \notin {JStr(g_cfg.type), JStr(S_any)})
       => (/\ ota_pc' = "idle"
           /\ resp'.code = 401
           /\ ota_handle' = "none"
           /\ ~FirmwareFetched'
           /\ UNCHANGED <<part_data, boot_part>>)]_vars

\* a manifest for another device type, signed with the device's key, was answered 401
C3_Witness ==
    /\ req.ep = "ota_apply"
    /\ manifest_buf = Manifest(JStr(S_hmac_sha256), ShaHexOf(ImageA), V_short, S_other, "full")
    /\ manifest_buf.signature = JStr(FormatSignature(manifest_buf))
    /\ resp.code = 401
    /\ ota_pc = "idle"

(***************************************************************************)
(* SpecApi: every POST endpoint, called with and without the passcode.     *)
(***************************************************************************)
ApiPasscodes == {P_right} \cup BadPasscodes
T_y == <<"y">>

ApiPairReqs ==
    {[body |-> "json", passcode |-> p] : p \in ApiPasscodes}
    \cup {[body |-> "garbage", passcode |-> JAbsent]}
    \cup {[body |-> "json", passcode |-> JStr(T_long)]}

ApiCfgReqs ==
    {[EmptyCfgReq(p) EXCEPT !.name = JStr(T_h), !.relay_gpio = PinsRepeated] : p \in ApiPasscodes}
    \cup {[EmptyCfgReq(P_right) EXCEPT !.new_passcode = JStr(T_y)],
          [EmptyCfgReq(P_right) EXCEPT !.new_passcode = JStr(T_long)]}

ApiCtlReqs ==
    {CtlReq(p, RelayCh(<<"1">>), JStr(S_on), JAbsent) : p \in ApiPasscodes}
    \cup {CtlReq(p, JStr(S_dimmer), JStr(S_set), JNum(50)) : p \in ApiPasscodes}

ApiGpioReqs ==
    {[body |-> "json", passcode |-> p, gpio |-> JNum(4), value |-> JNum(1)] : p \in ApiPasscodes}
    \cup {[body |-> "json", passcode |-> P_right, gpio |-> JNum(34), value |-> JNum(1)],
          [body |-> "json", passcode |-> P_right, gpio |-> JAbsent, value |-> JNum(1)]}
    \cup {[body |-> "json", passcode |-> P_right, gpio |-> JNum(n), value |-> JNum(v)] :
              n \in {-1, 6, 23}, v \in {0, 1}}

ApiOtaReqs == {OtaReq("json", p, U_fw, U_mf) : p \in ApiPasscodes}

ApiManifests ==
    {Manifest(JStr(S_hmac_sha256), ShaHexOf(ImageA), V_short, S_any, "device"), NoManifest}

InitApi == PowerOn({StoreNone})

NextApi ==
    \/ Boot_LoadConfig
    \/ Boot_InitOutputs
    \/ Boot_StartWifi
    \/ Boot_StartHttp
    \/ \E root \in ApiPairReqs : pair_handler(root)
    \/ \E root \in ApiCfgReqs : config_handler(root)
    \/ \E root \in ApiCtlReqs : control_handler(root)
    \/ \E root \in ApiGpioReqs : gpio_test_handler(root)
    \/ \E root \in ApiOtaReqs : ota_apply_handler(root)
    \/ \E got \in BOOLEAN, doc \in ApiManifests : OtaManifest(got, doc)
    \/ \E ok \in BOOLEAN : OtaBegin(ok)
    \/ \E ok \in BOOLEAN : OtaHttpOpen(ok, <<ImageA>>)
    \/ \E read_ok \in BOOLEAN, write_ok \in BOOLEAN : OtaRead(read_ok, write_ok)
    \/ \E end_ok \in BOOLEAN, boot_ok \in BOOLEAN : OtaCommit(end_ok, boot_ok)

SpecApi == InitApi /\ [][NextApi]_vars

\* a request arrives whose body is JSON and whose passcode is absent, not a string or
\* not the configured one
UnauthorizedRequestStep ==
    /\ req_count' = req_count + 1
    /\ req'.root.body = "json"
    /\ ~(req'.root.passcode.t = "str" /\ req'.root.passcode.s = g_cfg.passcode)

\* C4: on /api/pair, /api/config, /api/control, /api/test/gpio and /api/ota/apply such a
\* request is answered 401 and leaves DeviceConfig, OutputState, the stored record, every
\* GPIO and PWM output and the OTA partition as they were, and fetches nothing.
C4_UnauthorizedChangesNothing ==
    [][UnauthorizedRequestStep =>
          /\ resp'.code = 401
          /\ UNCHANGED <<g_cfg, g_state, nvs, gpio_level, ledc_duty, g_web_led_enabled,
                         part_data, boot_part>>
          /\ drv_calls' = {}
          /\ fetches' \subseteq fetches
          /\ ota_pc' = "idle"]_vars

\* after the passcode was changed, a configuration request with the old passcode was
\* answered 401
C4_Witness ==
    /\ req.ep = "config"
    /\ req.root.passcode = P_right
    /\ g_cfg.passcode = T_y
    /\ resp = Resp(401, "invalid passcode")
    /\ g_cfg.name = FW_DEFAULT_NAME

(***************************************************************************)
(* SpecSan: boots from records whose text and relay map are drawn from     *)
(* bounded sets, so that the load sanitizes them once, and then serves     *)
(* /api/config requests that carry no field, which sanitize them again     *)
(* (lines 947..952).                                                       *)
(***************************************************************************)
MaxSanLen == 4

SanChars == {" ", "a", "\t"}
SanTexts == UNION {[1..n -> SanChars] : n \in 0..MaxSanLen}
SanPinValues == {-1, 4, 99}
SanMaps == {Pins8(a, 17, 18, b, c, -1, -1, d) :
                a \in SanPinValues, b \in SanPinValues, c \in SanPinValues, d \in SanPinValues}
SanCounts == {-3, 0, 2, 8, 9}
SanBlobBoth ==
    [DefaultCfg EXCEPT !.wifi_ssid = <<" ", "a", "\t">>, !.relay_count = 9,
                       !.relay_gpio = Pins8(99, 17, 18, -1, 4, -1, -1, 99)]
SanStores ==
    {StoreCur([DefaultCfg EXCEPT !.wifi_ssid = x, !.ap_pass = x]) : x \in SanTexts}
    \cup {StoreCur([DefaultCfg EXCEPT !.relay_count = c, !.relay_gpio = m]) :
              c \in SanCounts, m \in SanMaps}
    \cup {StoreCur(SanBlobBoth)}

\* the request that carries the passcode and no field
SanReqs == {EmptyCfgReq(P_right)}

InitSan == PowerOn(SanStores)

NextSan ==
    \/ Boot_LoadConfig
    \/ Boot_InitOutputs
    \/ Boot_StartWifi
    \/ Boot_WaitTimeout
    \/ Boot_StartHttp
    \/ HandleEvent
    \/ \E root \in SanReqs : config_handler(root)

SpecSan == InitSan /\ [][NextSan]_vars

\* a second sanitization, by the request that carries no field
ResanitizeStep ==
    /\ req_count' = req_count + 1
    /\ req'.ep = "config"
    /\ req'.root \in SanReqs
    /\ resp'.code = 200

\* C11: sanitization is idempotent and total: sanitizing a sanitized text field or relay
\* map again yields the same value, for every stored text and relay map, and a request
\* that re-sanitizes the loaded configuration leaves it as the load made it.
C11_SanitizeIdempotent ==
    /\ [](nvs.kind = "current" =>
            /\ \A k \in WifiFields :
                   sanitize_wifi_field(sanitize_wifi_field(nvs.blob[k]))
                       = sanitize_wifi_field(nvs.blob[k])
            /\ sanitize_relay_gpio_map(sanitize_relay_gpio_map(nvs.blob))
                   = sanitize_relay_gpio_map(nvs.blob)
            /\ sanitize_relay_gpio_map(nvs.blob).relay_count \in 1..MAX_RELAYS)
    /\ [][ResanitizeStep => g_cfg' = g_cfg]_vars

\* a record with untrimmed text and invalid pins was loaded and then sanitized again
C11_Witness ==
    /\ load_path = "current"
    /\ req.ep = "config"
    /\ resp.code = 200
    /\ g_cfg.wifi_ssid = <<"a">>
    /\ g_cfg.relay_count = 8
    /\ g_cfg.relay_gpio[0] = 16
    /\ g_cfg.relay_gpio[3] = 19
    /\ g_cfg.relay_gpio[4] = 4
    /\ g_cfg.relay_gpio[7] = -1

(***************************************************************************)
(* SpecCtl: boots with four relays, or with eight of which five have a     *)
(* pin, and then serves /api/control.                                      *)
(***************************************************************************)
MaxCtlReqs == 3

CtlBlob8 ==
    [DefaultCfg EXCEPT !.relay_count = 8, !.relay_gpio = Pins8(16, 17, 18, 19, 4, -1, -1, -1)]
CtlStores == {StoreNone, StoreCur(CtlBlob8)}

S_up == <<"u", "p">>
CtlWords == {S_toggle, S_on, S_off}
\* the state member of a request: absent, not a string, the three words, another word
CtlStates == {JAbsent, JNum(1), JStr(S_toggle), JStr(S_on), JStr(S_off), JStr(S_up)}
CtlValues == {JAbsent, JNum(-5), JNum(0), JNum(50), JNum(150)}
CtlRelayDigits == {<<"1">>, <<"5">>, <<"6">>}
CtlBoolChannels == {RelayCh(d) : d \in CtlRelayDigits} \cup {JStr(S_light), JStr(S_fan_power)}
CtlBadChannels ==
    {RelayCh(<<"0">>), RelayCh(<<"9">>), RelayCh(<<>>), RelayCh(<<"-", "1">>), JStr(<<"x">>),
     JNum(1), JAbsent}

CtlReqs ==
    {CtlReq(P_right, c, s, JAbsent) : c \in CtlBoolChannels \cup {JStr(S_fan)}, s \in CtlStates}
    \cup {CtlReq(P_right, JStr(S_fan), JStr(S_set), v) : v \in CtlValues}
    \cup {CtlReq(P_right, JStr(S_fan_speed), JAbsent, v) : v \in CtlValues}
    \cup {CtlReq(P_right, JStr(S_fan_speed), s, v) :
              s \in {JStr(S_off), JStr(S_set)}, v \in {JNum(0), JNum(50)}}
    \cup {CtlReq(P_right, c, JStr(S_on), JNum(50)) : c \in CtlBadChannels}
    \cup {CtlReq(P_wrong, JStr(S_light), JStr(S_on), JAbsent)}

InitCtl == PowerOn(CtlStores)

NextCtl ==
    \/ Boot_LoadConfig
    \/ Boot_InitOutputs
    \/ Boot_StartWifi
    \/ Boot_StartHttp
    \/ \E root \in CtlReqs : req_count < MaxCtlReqs /\ control_request(root)

SpecCtl == InitCtl /\ [][NextCtl]_vars

\* the step that serves the /api/control request root
ControlStep(root) ==
    /\ req_count' = req_count + 1
    /\ req'.ep = "control"
    /\ req'.root = root

RespOk == Resp(200, "{\"ok\":true}")
RespUnsupported == Resp(400, "unsupported channel/state")

\* the relay channel N, in decimal
RelayChannelOf(n) == RelayCh(<<Digits[n + 1]>>)

\* C12: for every N in 1..relay_count and every state word, a /api/control request for
\* relayN with the matching passcode is answered {ok:true} and leaves relay[N-1] equal to
\* parse_on_off_toggle(state, the previous relay[N-1]).
C12_RelayCommandResolves ==
    [][\A n \in 1..MAX_RELAYS : \A s \in CtlWords \cup {S_up} :
          (n <= g_cfg.relay_count /\ ControlStep(CtlReq(P_right, RelayChannelOf(n), JStr(s), JAbsent)))
              => /\ resp' = RespOk
                 /\ g_state'.relay[n - 1] = parse_on_off_toggle(s, g_state.relay[n - 1])]_vars

\* the boolean output a relayN, light or fan_power channel addresses
IsRelayChannel(c) == cJSON_IsString(c) /\ strn_eq(c.s, S_relay)
RelayIndex(c) == atoi(SubSeq(c.s, 6, Len(c.s))) - 1
BoolOutput(st, c) ==
    IF IsRelayChannel(c) THEN st.relay[RelayIndex(c)]
    ELSE IF c.s = S_light THEN st.light_single
    ELSE st.fan_power
\* relayN with N in 1..relay_count, or one of the other channels
Addressable(cfg, c) == IsRelayChannel(c) => RelayIndex(c) \in 0..(cfg.relay_count - 1)
\* the relay's slot holds a pin
HasPin(cfg, c) == IsRelayChannel(c) => cfg.relay_gpio[RelayIndex(c)] # -1

C14_ToggleInvolutive ==
    /\ [](\A c \in CtlBoolChannels :
             Addressable(g_cfg, c) =>
                 parse_on_off_toggle(S_toggle, parse_on_off_toggle(S_toggle, BoolOutput(g_state, c)))
                     = BoolOutput(g_state, c))
    /\ [][\A c \in CtlBoolChannels :
             (Addressable(g_cfg, c) /\ ControlStep(CtlReq(P_right, c, JStr(S_toggle), JAbsent)))
                 => /\ resp' = RespOk
                    /\ BoolOutput(handle_control(World', req'.root).w.st, c)
                           = BoolOutput(g_state, c)]_vars

\* the second of two commands was a toggle that switched the light back off
C14_Witness ==
    /\ req_count = 2
    /\ req.ep = "control"
    /\ req.root = CtlReq(P_right, JStr(S_light), JStr(S_toggle), JAbsent)
    /\ resp = RespOk
    /\ ~g_state.light_single
    /\ <<"gpio_set_level", LIGHT_SINGLE_PIN, 0>> \in drv_calls

\* the authorised requests of CtlReqs on the given channels
CtlReqsOn(channels) == {root \in CtlReqs : root.passcode = P_right /\ root.channel \in channels}

\* C15: after any fan or fan_speed command (every state, every value, also negative and
\* above 100, from every prior OutputState), fan_speed_pct > 0 implies fan_power.
C15_FanSpeedImpliesPower ==
    [][\A root \in CtlReqsOn({JStr(S_fan), JStr(S_fan_speed)}) :
          ControlStep(root)
              => /\ resp' = RespOk
                 /\ g_state'.fan_speed_pct \in 0..100
                 /\ (g_state'.fan_speed_pct > 0 => g_state'.fan_power)]_vars

\* a fan_speed command of 150, served third, left the fan on at full speed
C15_Witness ==
    /\ req_count = 3
    /\ req.ep = "control"
    /\ req.root = CtlReq(P_right, JStr(S_fan_speed), JAbsent, JNum(150))
    /\ resp = RespOk
    /\ g_state.fan_power
    /\ g_state.fan_speed_pct = 100
    /\ ledc_duty[CH_FAN] = 255

\* the fan or fan_power command resolves to power off in the current state
ResolvesOff(root) ==
    ~FanCommandPower(root.channel.s,
                     IF cJSON_IsString(root.state) THEN root.state.s ELSE S_toggle,
                     IF cJSON_IsNumber(root.value) THEN root.value.n ELSE 0,
                     g_state.fan_power)

\* C16 as stated: after a command on channel fan or fan_power whose resolved power is
\* false, fan_speed_pct is 0.
C16_FanOffZeroesSpeed ==
    [][\A root \in CtlReqsOn({JStr(S_fan), JStr(S_fan_power)}) :
          (ResolvesOff(root) /\ ControlStep(root))
              => /\ ~g_state'.fan_power
                 /\ g_state'.fan_speed_pct = 0]_vars

\* C16, amended: after a command on channel fan whose resolved power is false,
\* fan_speed_pct is 0; a command on channel fan_power leaves fan_speed_pct as it was,
\* whatever the resolved power, and in both cases the PWM duty of the fan is 0.
C16_FanOffZeroesSpeedFanPowerKeepsIt ==
    [][/\ \A root \in CtlReqsOn({JStr(S_fan)}) :
              (ResolvesOff(root) /\ ControlStep(root))
                  => /\ ~g_state'.fan_power
                     /\ g_state'.fan_speed_pct = 0
                     /\ ledc_duty'[CH_FAN] = 0
       /\ \A root \in CtlReqsOn({JStr(S_fan_power)}) :
              ControlStep(root)
                  => /\ g_state'.fan_speed_pct = g_state.fan_speed_pct
                     /\ (ResolvesOff(root) => ~g_state'.fan_power /\ ledc_duty'[CH_FAN] = 0)]_vars

\* the fan was on and was switched off by a toggle on channel fan
C16_Witness ==
    /\ req_count = 2
    /\ req.ep = "control"
    /\ req.root = CtlReq(P_right, JStr(S_fan), JStr(S_toggle), JAbsent)
    /\ resp = RespOk
    /\ ~g_state.fan_power
    /\ g_state.fan_speed_pct = 0
    /\ <<"ledc_set_duty", CH_FAN, 0>> \in drv_calls

KnownChannels == {S_light, S_dimmer, S_rgb, S_rgbw, S_fan, S_fan_power, S_fan_speed}

\* the channel is not a string, or relayN with N outside 1..relay_count, or an unknown name
RejectedChannel(cfg, c) ==
    \/ ~cJSON_IsString(c)
    \/ IsRelayChannel(c) /\ (RelayIndex(c) + 1 < 1 \/ RelayIndex(c) + 1 > cfg.relay_count)
    \/ cJSON_IsString(c) /\ ~IsRelayChannel(c) /\ c.s \notin KnownChannels

\* C17: a control command that is rejected (channel not a string, unknown channel name,
\* or relayN with N < 1 or N > relay_count) is answered 400 "unsupported channel/state"
\* and leaves OutputState, DeviceConfig and the outputs as they were, with no driver call.
C17_RejectedCommandChangesNothing ==
    [][\A root \in CtlReqs :
          (root.passcode = P_right /\ RejectedChannel(g_cfg, root.channel) /\ ControlStep(root))
              => /\ resp' = RespUnsupported
                 /\ g_state' = g_state
                 /\ g_cfg' = g_cfg
                 /\ nvs' = nvs
                 /\ gpio_level' = gpio_level
                 /\ ledc_duty' = ledc_duty
                 /\ drv_calls' = {}]_vars

\* relay5 was refused on a device with four relays whose light had been switched on
C17_Witness ==
    /\ req.ep = "control"
    /\ req.root = CtlReq(P_right, RelayCh(<<"5">>), JStr(S_on), JAbsent)
    /\ g_cfg.relay_count = 4
    /\ resp = RespUnsupported
    /\ g_state.light_single
    /\ ~g_state.relay[4]
    /\ drv_calls = {}

(***************************************************************************)
(* SpecPin: boots with the default relay map, or with one that claims the  *)
(* pins of the light and the dimmer, then serves /api/config requests that *)
(* move relays onto and off the auxiliary and PWM pins, and /api/control   *)
(* requests on those outputs.                                              *)
(***************************************************************************)
PinBlobClaimed ==
    [DefaultCfg EXCEPT !.relay_gpio = Pins8(LIGHT_SINGLE_PIN, DIMMER_PIN, 18, 19, -1, -1, -1, -1)]
PinStores == {StoreNone, StoreCur(PinBlobClaimed)}

PinMaps ==
    {NumArr(<<LIGHT_SINGLE_PIN, FAN_POWER_PIN, DIMMER_PIN, FAN_SPEED_PIN>>),
     NumArr(<<RGB_R_PIN, RGB_G_PIN, RGB_B_PIN, RGB_W_PIN>>),
     NumArr(<<16, 17, 18, 19, LIGHT_SINGLE_PIN, DIMMER_PIN>>),
     NumArr(<<16, 17, 18, 19>>)}
PinCfgReqs == {[EmptyCfgReq(P_right) EXCEPT !.relay_gpio = a] : a \in PinMaps}

RgbReq(channel, state, r) == [CtlReq(P_right, channel, state, JAbsent) EXCEPT !.r = r]
PinCtlReqs ==
    {CtlReq(P_right, JStr(S_light), JStr(S_on), JAbsent),
     CtlReq(P_right, JStr(S_fan_power), JStr(S_on), JAbsent),
     CtlReq(P_right, JStr(S_fan), JStr(S_on), JAbsent),
     CtlReq(P_right, JStr(S_fan_speed), JAbsent, JNum(80)),
     CtlReq(P_right, JStr(S_dimmer), JStr(S_set), JNum(50)),
     CtlReq(P_right, JStr(S_dimmer), JStr(S_on), JAbsent),
     RgbReq(JStr(S_rgb), JStr(S_on), JAbsent),
     RgbReq(JStr(S_rgbw), JStr(S_set), JNum(30))}

InitPin == PowerOn(PinStores)

NextPin ==
    \/ Boot_LoadConfig
    \/ Boot_InitOutputs
    \/ Boot_StartWifi
    \/ Boot_StartHttp
    \/ \E root \in PinCfgReqs : config_handler(root)
    \/ \E root \in PinCtlReqs : control_handler(root)

SpecPin == InitPin /\ [][NextPin]_vars

\* the outputs with a fixed pin: the channels that command them, the pin, and the PWM
\* channel (-1 for an output driven by a GPIO level)
AuxOutputs ==
    {[channels |-> {S_light}, pin |-> LIGHT_SINGLE_PIN, pwm |-> -1],
     [channels |-> {S_fan, S_fan_power, S_fan_speed}, pin |-> FAN_POWER_PIN, pwm |-> -1],
     [channels |-> {S_dimmer}, pin |-> DIMMER_PIN, pwm |-> CH_DIMMER],
     [channels |-> {S_rgb, S_rgbw}, pin |-> RGB_R_PIN, pwm |-> CH_RGB_R],
     [channels |-> {S_rgb, S_rgbw}, pin |-> RGB_G_PIN, pwm |-> CH_RGB_G],
     [channels |-> {S_rgb, S_rgbw}, pin |-> RGB_B_PIN, pwm |-> CH_RGB_B],
     [channels |-> {S_rgb, S_rgbw}, pin |-> RGB_W_PIN, pwm |-> CH_RGB_W],
     [channels |-> {S_fan, S_fan_power, S_fan_speed}, pin |-> FAN_SPEED_PIN, pwm |-> CH_FAN]}

\* the driver calls that drive the output o
DrivesOutput(call, o) ==
    \/ o.pwm = -1 /\ call[1] = "gpio_set_level" /\ call[2] = o.pin
    \/ o.pwm # -1 /\ call[1] = "ledc_set_duty" /\ call[2] = o.pwm

\* the pin is held by a relay slot below relay_count
ClaimedByRelay(cfg, pin) == \E i \in 0..(cfg.relay_count - 1) : cfg.relay_gpio[i] = pin

\* the OutputState the command leaves on a device whose relays claim none of these pins
StateWhenFree(root) == handle_control([World EXCEPT !.cfg = DefaultCfg], root).w.st

\* C18: whenever the fixed pin of an auxiliary output (light, fan power enable) or of a
\* PWM output (dimmer, RGB R/G/B/W, fan speed) is assigned to an active relay slot at the
\* time of the command, a control command on that output is answered {ok:true} and
\* records the logical state it would record with the pin free, but makes no driver call
\* for that output: no GPIO level set, no PWM duty set.
C18_ClaimedOutputNotDriven ==
    [][\A root \in PinCtlReqs : \A o \in AuxOutputs :
          (root.channel.s \in o.channels /\ ClaimedByRelay(g_cfg, o.pin) /\ ControlStep(root))
              => /\ resp' = RespOk
                 /\ g_state' = StateWhenFree(root)
                 /\ \A call \in drv_calls' : ~DrivesOutput(call, o)]_vars

(***************************************************************************)
(* SpecMerge: boots with the compiled defaults, or with a record that      *)
(* differs from them in every field, and then serves /api/config requests  *)
(* that carry each field with the expected type, with another type, or     *)
(* not at all.                                                             *)
(***************************************************************************)
T_v == <<"v">>
MergeBlob ==
    [name |-> <<"n">>, type |-> <<"t">>, passcode |-> FW_DEFAULT_PASSCODE, relay_count |-> 6,
     relay_gpio |-> Pins8(4, 5, 12, 13, 14, 15, -1, -1),
     wifi_ssid |-> <<>>, wifi_pass |-> <<"w", "p">>, ap_ssid |-> <<"a", "p">>,
     ap_pass |-> <<"s", "e", "c", "r", "e", "t", "0", "1">>, use_static_ip |-> TRUE,
     static_ip |-> <<"1", ".", "2">>, gateway |-> <<"1", ".", "1">>,
     subnet_mask |-> <<"2", "5", "5">>, ota_key |-> <<"q">>]
MergeStores == {StoreNone, StoreCur(MergeBlob)}

\* the member of the request that carries a text field of the configuration
ReqKey(f) == IF f = "passcode" THEN "new_passcode" ELSE f

PinsAllInvalid == NumArr(<<99, 2, -7, 34, 99, 0, 40, -2>>)
PinsAllValid == NumArr(<<22, 21, 13, 12, 5, 4, 2, 25>>)
MergeReqMixed ==
    [EmptyCfgReq(P_right) EXCEPT !.name = JStr(T_v), !.type = JNum(7), !.relay_count = JStr(T_v),
                                 !.use_static_ip = JStr(T_v), !.relay_gpio = PinsMixed]
MergeReqs ==
    {[EmptyCfgReq(P_right) EXCEPT ![ReqKey(f)] = v] : f \in StrFields, v \in {JStr(T_v), JNum(7)}}
    \cup {[EmptyCfgReq(P_right) EXCEPT !.relay_count = v] : v \in {JNum(3), JNum(9), JStr(T_v), JBool(TRUE)}}
    \cup {[EmptyCfgReq(P_right) EXCEPT !.use_static_ip = v] : v \in {JBool(TRUE), JBool(FALSE), JNum(1)}}
    \cup {[EmptyCfgReq(P_right) EXCEPT !.relay_gpio = a] :
              a \in {PinsAllInvalid, PinsAllValid, PinsInvalid, [t |-> "str", a |-> <<>>]}}
    \cup {[EmptyCfgReq(P_right) EXCEPT !.ap_ssid = JStr(T_dirty), !.name = JStr(T_dirty)],
          MergeReqMixed, EmptyCfgReq(P_right), EmptyCfgReq(P_wrong)}

InitMerge == PowerOn(MergeStores)

NextMerge ==
    \/ Boot_LoadConfig
    \/ Boot_InitOutputs
    \/ Boot_StartWifi
    \/ Boot_StartHttp
    \/ \E root \in MergeReqs : config_handler(root)

SpecMerge == InitMerge /\ [][NextMerge]_vars

\* the step that serves the /api/config request root and accepts it
ConfigStep(root) ==
    /\ req_count' = req_count + 1
    /\ req'.ep = "config"
    /\ req'.root = root
    /\ root.body = "json"
    /\ cJSON_IsString(root.passcode)
    /\ root.passcode.s = g_cfg.passcode

RespSaved == Resp(200, "{\"saved\":true}")

\* slot i of the request's relay_gpio holds a number that is neither -1 nor a valid safe
\* output pin
InvalidPinSupplied(root, i) ==
    /\ cJSON_IsArray(root.relay_gpio)
    /\ cJSON_IsNumber(cJSON_GetArrayItem(root.relay_gpio, i))
    /\ cJSON_GetArrayItem(root.relay_gpio, i).n # -1
    /\ ~AllowlistedOutputPin(cJSON_GetArrayItem(root.relay_gpio, i).n)

TextStored(f, v) ==
    IF f \in WifiFields THEN sanitize_wifi_field(Prefix(v, MAX_STR - 1)) ELSE Prefix(v, MAX_STR - 1)

\* the fields the request carries with the expected type take its value (cut, cleaned and
\* clamped), and every other field, and every relay_gpio slot whose item is absent or not
\* a number, keeps its previous value
MergeFrame(root) ==
    /\ \A f \in StrFields :
           g_cfg'[f] = IF cJSON_IsString(root[ReqKey(f)])
                       THEN TextStored(f, root[ReqKey(f)].s)
                       ELSE g_cfg[f]
    /\ g_cfg'.relay_count = IF cJSON_IsNumber(root.relay_count)
                            THEN clamp_int(root.relay_count.n, 1, MAX_RELAYS)
                            ELSE g_cfg.relay_count
    /\ g_cfg'.use_static_ip = IF cJSON_IsBool(root.use_static_ip)
                              THEN root.use_static_ip.n = 1
                              ELSE g_cfg.use_static_ip
    /\ ~cJSON_IsArray(root.relay_gpio) => g_cfg'.relay_gpio = g_cfg.relay_gpio
    /\ cJSON_IsArray(root.relay_gpio) =>
           \A i \in 0..(MAX_RELAYS - 1) :
               ~cJSON_IsNumber(cJSON_GetArrayItem(root.relay_gpio, i))
                   => g_cfg'.relay_gpio[i] = g_cfg.relay_gpio[i]

OtaFailedStep == ota_pc # "idle" /\ ota_pc' = "idle"

\* the manifest arrived with its text fields and its signature is not the recomputed one
SignatureRefused(doc) ==
    /\ ManifestTextFields(doc)
    /\ doc.signature # JStr(compute_manifest_signature(g_cfg, doc.sha256.s, doc.version.s,
                                                       doc.device_type.s))

\* the stream ended and the digest of what was read is not the manifest's
DigestRefused == ota_pc = "check" /\ hex_encode(Sha256(sha_ctx)) # expected_sha

\* C21: an update attempt that fails because the manifest signature does not verify, or
\* because the SHA-256 of the downloaded firmware does not match the manifest, is answered
\* 401; 500 answers only failures of fetching and flashing.
C21_SignatureAndDigestFailuresAre401 ==
    [][OtaFailedStep =>
           /\ (ota_pc = "manifest" /\ SignatureRefused(manifest_buf')) => resp'.code = 401
           /\ DigestRefused => resp'.code = 401
           /\ resp'.code = 500 => ~DigestRefused]_vars

(***************************************************************************)
(* What a failed update leaves behind (SpecOta).                           *)
(***************************************************************************)
\* no update request is in progress and none has restarted the device
OtaIdle == ota_pc = "idle" /\ pc # "restart"

\* C22: a failure at any stage of the update (manifest fetch, manifest validation,
\* signature check, firmware fetch, chunk write, integrity check, finalize, set-boot)
\* leaves the inactive partition's contents and the boot target as they were before the
\* request.  The partitions start as (OldImage, "running") and only update requests touch
\* them, so the claim is that every state between requests still shows that pair.
C22_FailedUpdateLeavesPartitions ==
    OtaIdle => (part_data = OldImage /\ boot_part = "running")

(***************************************************************************)
(* The outcome of an update request (SpecOta).                             *)
(***************************************************************************)
\* the last request was POST /api/ota/apply and its handler is not running any more:
\* it has returned, or it has called esp_restart
OtaEnded == req.ep = "ota_apply" /\ ota_pc \in {"idle", "restarting"}

OtaBootSetAndRestarted == boot_part = "update" /\ ota_pc = "restarting" /\ pc = "restart"

\* C23: POST /api/ota/apply has the {ok:true} outcome only on the path on which the boot
\* partition was set and the restart was invoked; every other path ends with an error
\* response and without a restart.  (esp_restart does not return, so on that one path the
\* handler never reaches its {ok:true} line: the restart is the outcome.)
C23_OkOnlyWithBootSetAndRestart ==
    OtaEnded =>
        /\ (resp = RespOk \/ pc = "restart") => OtaBootSetAndRestarted
        /\ ~OtaBootSetAndRestarted =>
               (resp.code \in {400, 401, 500} /\ pc # "restart" /\ boot_part = "running")

\* an update went through: the boot partition is set and the restart was invoked
C23_Witness == OtaEnded /\ OtaBootSetAndRestarted /\ part_data = ImageA

(***************************************************************************)
(* The event handler's counters (SpecWifi).                                *)
(***************************************************************************)
\* a step on which wifi_event_handler handles an event of kind id
HandledEvent(id) ==
    evq # <<>> /\ Head(evq).id = id /\ evq' = Tail(evq) /\ boots' = boots

\* C24: on every IP-acquired event, whatever the connectivity state, the failure count
\* becomes 0, the last disconnect reason becomes 0 and the connected signal is raised, so
\* the disconnects that exhaust the retries are counted from 0 after a connection.
C24_GotIpResetsCounters ==
    [][HandledEvent("STA_GOT_IP") =>
           /\ g_sta_fail_count' = 0
           /\ g_last_wifi_disc_reason' = 0
           /\ "CONNECTED" \in g_wifi_events'
           /\ g_wifi_events \subseteq g_wifi_events']_vars

\* an address was acquired after the link had dropped: three radio outcomes have been
\* handled, the last two being a disconnect and the acquisition that followed it
C24_Witness ==
    /\ sta_link = "up" /\ evq = <<>>
    /\ radio_events >= 3
    /\ g_sta_fail_count = 0
    /\ g_last_wifi_disc_reason = 0
    /\ "CONNECTED" \in g_wifi_events

\* C25: each disconnect event increments the failure count by one; a reconnect is issued
\* iff the incremented count is below 5, otherwise the failed signal is raised and no
\* reconnect is issued; so at most 4 automatic reconnects are issued between two IP
\* acquisitions and the count never passes 5.
C25_RetryUntilFifthDisconnect ==
    /\ [](g_sta_fail_count \in 0..STA_MAX_RETRY)
    /\ [][HandledEvent("STA_DISCONNECTED") =>
              /\ g_sta_fail_count' = g_sta_fail_count + 1
              /\ g_last_wifi_disc_reason' = Head(evq).reason
              /\ IF g_sta_fail_count' < STA_MAX_RETRY
                 THEN /\ sta_link' = EspWifiConnect
                      /\ (wifi_mode = "sta" /\ wifi_started) => sta_link' = "connecting"
                      /\ g_wifi_events' = g_wifi_events
                 ELSE /\ sta_link' = sta_link
                      /\ sta_link' # "connecting"
                      /\ g_wifi_events' = g_wifi_events \cup {"FAIL"}]_vars

\* the fifth disconnect in a row was handled: the failed signal is up, the station is
\* idle and no attempt is running
C25_Witness ==
    /\ g_sta_fail_count = STA_MAX_RETRY
    /\ "FAIL" \in g_wifi_events
    /\ wifi_mode = "sta" /\ wifi_started
    /\ sta_link = "idle" /\ evq = <<>>
    /\ g_last_wifi_disc_reason \in DiscReasons

(***************************************************************************)
(* The order of the driver calls at start-up (SpecWifi).                   *)
(***************************************************************************)
\* C26: with an empty station SSID at start the device goes straight to the fallback
\* access point, without configuring or starting station mode and without waiting; when
\* the initial wait ends without the connected signal (timeout or failed signal) the
\* station radio is stopped before the access point is started.
C26_FallbackPaths ==
    [][/\ (pc = "wifi" /\ pc' # "wifi" /\ Len(g_cfg.wifi_ssid) = 0) =>
              /\ pc' = "http"
              /\ wifi_calls' = ApStartCalls
              /\ wifi_mode' = "ap" /\ ap_starts' = 1
              /\ sta_link' = "idle" /\ evq' = <<>>
       /\ (pc = "wait" /\ pc' # "wait" /\ "CONNECTED" \notin g_wifi_events) =>
              /\ pc' = "http"
              /\ wifi_calls' = StaStartCalls \o <<"stop">> \o ApStartCalls
              /\ wifi_mode' = "ap" /\ ap_starts' = 1]_vars

\* the fifth disconnect raised the failed signal during the initial wait: the station was
\* stopped and then the access point was started
C26_Witness ==
    /\ pc = "http"
    /\ "FAIL" \in g_wifi_events /\ "CONNECTED" \notin g_wifi_events
    /\ Len(g_cfg.wifi_ssid) > 0
    /\ wifi_calls = <<"set_mode_sta", "set_config_sta", "start", "stop",
                      "set_mode_ap", "set_config_ap", "start">>
    /\ wifi_mode = "ap"

\* C27: whenever the fallback access point is started, it is started open iff the
\* sanitized access-point password has fewer than 8 characters, and with WPA2-PSK
\* otherwise.
C27_OpenIffShortPassword ==
    /\ [](ap_starts > 0 <=> ap_auth \in {"open", "wpa2"})
    /\ [][ap_starts' > ap_starts =>
              /\ g_cfg'.ap_pass = sanitize_wifi_field(g_cfg.ap_pass)
              /\ ap_auth' = IF Len(g_cfg'.ap_pass) < AP_MIN_PASS_LEN THEN "open" ELSE "wpa2"]_vars

\* the access point was started with the stored five-character password: it is open
C27_Witness ==
    /\ ap_starts = 1
    /\ wifi_mode = "ap" /\ wifi_started
    /\ g_cfg.ap_pass = T_pass5
    /\ ap_auth = "open"

(***************************************************************************)
(* The diagnostic pin test (SpecApi).                                      *)
(***************************************************************************)
\* a step on which POST /api/test/gpio is served
GpioTestStep == req_count' = req_count + 1 /\ req'.ep = "test_gpio"

\* the request is authorised and names a pin and a value
GpioTestNamesPin(root) ==
    Gate(g_cfg, root) = NoResp /\ cJSON_IsNumber(root.gpio) /\ cJSON_IsNumber(root.value)

\* C28: POST /api/test/gpio drives a pin only if the pin is a member of the safe-pin
\* allowlist; a request that names a pin outside the allowlist is answered 400 and drives
\* nothing.
C28_TestDrivesOnlyAllowlistedPins ==
    [][GpioTestStep =>
           /\ \A c \in drv_calls' : c[2] \in SAFE_SCAN_GPIOS
           /\ (GpioTestNamesPin(req'.root) /\ req'.root.gpio.n \notin SAFE_SCAN_GPIOS) =>
                  (resp'.code = 400 /\ drv_calls' = {} /\ gpio_level' = gpio_level)]_vars

(***************************************************************************)
(* SpecPwm: /api/control on the PWM outputs with values of every size,     *)
(* and /api/config between the commands.                                   *)
(***************************************************************************)
INT_MAX == 2147483647

\* valueint of the request's numbers: cJSON saturates at the limits of int
PwmValues == {JNum(-INT_MAX), JNum(-1), JNum(0), JNum(1), JNum(50), JNum(100), JNum(101),
              JNum(INT_MAX), JAbsent}

RgbwReq(channel, state, r, g, b, wh) ==
    [CtlReq(P_right, channel, state, JAbsent) EXCEPT !.r = r, !.g = g, !.b = b, !.w = wh]

PwmCtlReqs ==
    {CtlReq(P_right, JStr(S_dimmer), JStr(S_set), v) : v \in PwmValues}
    \cup {CtlReq(P_right, JStr(S_fan), JStr(S_set), v) : v \in PwmValues}
    \cup {CtlReq(P_right, JStr(S_fan_speed), JAbsent, v) : v \in PwmValues}
    \cup {CtlReq(P_right, c, JStr(s), JNum(INT_MAX)) :
              c \in {JStr(S_dimmer), JStr(S_fan), JStr(S_fan_power)}, s \in CtlWords}
    \cup {RgbwReq(JStr(S_rgbw), JStr(S_set), v, v, v, v) : v \in PwmValues}
    \cup {RgbwReq(JStr(S_rgb), JAbsent, JNum(-INT_MAX), JNum(INT_MAX), JNum(101), JAbsent),
          RgbwReq(JStr(S_rgb), JStr(S_on), JNum(INT_MAX), JAbsent, JAbsent, JAbsent),
          RgbwReq(JStr(S_rgbw), JStr(S_on), JAbsent, JAbsent, JAbsent, JNum(-1)),
          RgbwReq(JStr(S_rgbw), JStr(S_off), JNum(50), JNum(50), JNum(50), JNum(50))}

PwmCfgReqs ==
    {EmptyCfgReq(P_right),
     [EmptyCfgReq(P_right) EXCEPT !.relay_count = JNum(INT_MAX)],
     [EmptyCfgReq(P_right) EXCEPT
         !.relay_gpio = NumArr(<<DIMMER_PIN, FAN_SPEED_PIN, RGB_R_PIN, -INT_MAX>>)]}

InitPwm == PowerOn({StoreNone})

NextPwm ==
    \/ Boot_LoadConfig
    \/ Boot_InitOutputs
    \/ Boot_StartWifi
    \/ Boot_StartHttp
    \/ \E root \in PwmCfgReqs : config_handler(root)
    \/ \E root \in PwmCtlReqs : control_handler(root)

SpecPwm == InitPwm /\ [][NextPwm]_vars

\* the percentage the firmware holds for a PWM channel
ChannelPercent(st, channel) ==
    CASE channel = CH_DIMMER -> st.dimmer_pct
      [] channel = CH_RGB_R -> st.rgb[0]
      [] channel = CH_RGB_G -> st.rgb[1]
      [] channel = CH_RGB_B -> st.rgb[2]
      [] channel = CH_RGB_W -> st.rgb[3]
      [] OTHER -> IF st.fan_power THEN st.fan_speed_pct ELSE 0

\* C29: in every reachable state, after any sequence of control and config requests with
\* arbitrary integer values, dimmer_pct, each rgb[i] and fan_speed_pct lie in 0..100, and
\* every duty passed to the PWM driver is percent * 255 / 100 (integer division) and lies
\* in 0..255.
C29_PercentAndDutyInRange ==
    /\ g_state.dimmer_pct \in 0..100
    /\ \A i \in 0..3 : g_state.rgb[i] \in 0..100
    /\ g_state.fan_speed_pct \in 0..100
    /\ \A c \in drv_calls :
           c[1] = "ledc_set_duty" =>
               /\ c[3] \in 0..255
               /\ c[3] = (ChannelPercent(g_state, c[2]) * 255) \div 100
    /\ \A channel \in 0..5 : ledc_duty[channel] \in 0..255

\* a dimmer command with the largest int was served: the percentage is 100 and the duty
\* passed to the driver is 255
C29_Witness ==
    /\ req.ep = "control"
    /\ req.root = CtlReq(P_right, JStr(S_dimmer), JStr(S_set), JNum(INT_MAX))
    /\ resp = RespOk
    /\ g_state.dimmer_pct = 100
    /\ <<"ledc_set_duty", CH_DIMMER, 255>> \in drv_calls

(***************************************************************************)
(* The fan commands (SpecCtl).                                             *)
(***************************************************************************)
\* the value member as handle_control reads it
CommandValue(root) == IF cJSON_IsNumber(root.value) THEN root.value.n ELSE 0

\* fan_speed with any state, and fan with state "set"
SetsFanSpeed(root) ==
    \/ root.channel = JStr(S_fan_speed)
    \/ root.channel = JStr(S_fan) /\ root.state = JStr(S_set)

\* what a fan or fan_speed command must leave behind when its state resolves as resolve
FanOutcome(root, resolve(_, _)) ==
    IF SetsFanSpeed(root)
    THEN /\ g_state'.fan_speed_pct = clamp_int(CommandValue(root), 0, 100)
         /\ g_state'.fan_power = (CommandValue(root) > 0)
    ELSE /\ g_state'.fan_power = resolve(root.state, g_state.fan_power)
         /\ g_state'.fan_speed_pct =
                IF ~g_state'.fan_power THEN 0
                ELSE IF g_state.fan_speed_pct = 0 THEN 50
                ELSE g_state.fan_speed_pct

\* the resolver as specified: a state that is absent or not one of the three words keeps
\* the current value
ResolveKeepingAbsent(state, current) ==
    IF cJSON_IsString(state) THEN parse_on_off_toggle(state.s, current) ELSE current

\* the resolver as handle_control applies it: a state that is absent or not a string is
\* "toggle"
ResolveTogglingAbsent(state, current) ==
    parse_on_off_toggle(IF cJSON_IsString(state) THEN state.s ELSE S_toggle, current)

BootStores == CfgStores \cup WifiStores

InitBoot == PowerOn(BootStores)

NextBoot ==
    \/ Boot_LoadConfig
    \/ Boot_InitOutputs
    \/ Boot_StartWifi
    \/ Boot_WaitBits
    \/ Boot_WaitTimeout
    \/ Boot_StartHttp
    \/ HandleEvent
    \/ RadioGotIp
    \/ RadioDisconnected
    \/ Reboot

SpecBoot == InitBoot /\ [][NextBoot]_vars

\* app_main has returned and no request has been served since
BootComplete == pc \in {"serving", "no_server"} /\ req = NoReq

\* the store holds no record, a record of neither layout, or the load could not read it
NoReadableConfig ==
    nvs.kind \in {"none", "other"} \/ load_path \in {"open_failed", "defaults"}

\* C31: after boot, whatever the store held, OutputState is all-off (8 relays false, light
\* false, dimmer 0, rgb (0,0,0,0), fan_power false, fan_speed 0); and when the store holds
\* no readable config, relay_count is 4 and relay_gpio is the default pins in slots 0..3
\* and -1 in slots 4..7.
C31_BootAllOffAndDefaults ==
    BootComplete =>
        /\ \A i \in 0..(MAX_RELAYS - 1) : ~g_state.relay[i]
        /\ ~g_state.light_single
        /\ g_state.dimmer_pct = 0
        /\ \A i \in 0..3 : g_state.rgb[i] = 0
        /\ ~g_state.fan_power /\ g_state.fan_speed_pct = 0
        /\ NoReadableConfig =>
               /\ g_cfg.relay_count = 4
               /\ \A i \in 0..(MAX_RELAYS - 1) :
                      g_cfg.relay_gpio[i] = IF i < 4 THEN DEFAULT_RELAY_GPIOS[i] ELSE -1

\* the device booted on a store whose record has neither layout: defaults, all off
C31_Witness ==
    /\ BootComplete
    /\ nvs = StoreOther
    /\ load_path = "defaults"
    /\ g_cfg.relay_count = 4
    /\ g_state = ZeroState

(***************************************************************************)
(* A save that fails (SpecApi).                                            *)
(***************************************************************************)
\* a step on which a handler receives a request
RequestStep == req_count' = req_count + 1

\* a step on which POST /api/config is served and passes the passcode check
ConfigAcceptedStep == RequestStep /\ req'.ep = "config" /\ Gate(g_cfg, req'.root) = NoResp

\* such a step on which the store does not end up holding the new configuration: the
\* save could not open or write it
SaveFailedStep == ConfigAcceptedStep /\ nvs' # StoreCur(g_cfg')

\* C32: when the store cannot be opened or written during a save, the operation is not
\* fatal: the in-memory DeviceConfig keeps the new values and goes on governing the
\* requests that follow, and the record persisted before is left as it was.
C32_FailedSaveKeepsMemoryAndStore ==
    /\ [][SaveFailedStep =>
              /\ nvs' = nvs
              /\ g_cfg' = ConfigSanitize(MergeConfig(g_cfg, req'.root))
              /\ resp' = RespSaved
              /\ pc' = "serving" /\ g_server']_vars
    /\ [][RequestStep =>
              (resp'.code = 401 <=> Gate(g_cfg, req'.root).code = 401)]_vars

\* the passcode was changed by a request whose save failed (the store still holds no
\* record), and the next request was accepted with the new passcode
C32_Witness ==
    /\ req_count = 2
    /\ nvs = StoreNone
    /\ g_cfg.passcode = T_y
    /\ req.root.passcode = JStr(T_y)
    /\ resp.code = 200

(***************************************************************************)
(* Changing the passcode (SpecApi).                                        *)
(***************************************************************************)
\* an accepted POST /api/config that carries a string new_passcode
PasscodeChangeStep == ConfigAcceptedStep /\ cJSON_IsString(req'.root.new_passcode)

\* the request being served carries, as a string, the passcode given
CarriesPasscode(root, p) == cJSON_IsString(root.passcode) /\ root.passcode.s = p

\* every request with a JSON body is refused with 401 exactly when it does not carry
\* the passcode held in memory, and the passcode held in memory changes only on a
\* passcode change
PasscodeInForce ==
    /\ [][RequestStep /\ req'.root.body = "json" =>
              (resp'.code = 401 <=> ~CarriesPasscode(req'.root, g_cfg.passcode))]_vars
    /\ [][g_cfg'.passcode # g_cfg.passcode /\ pc = "serving" => PasscodeChangeStep]_vars

\* C33: after an authorised /api/config carrying new_passcode = p, every later request to
\* a mutating endpoint is authorised iff its passcode equals p, until the next passcode
\* change, and the old passcode is answered 401 when it differs from p: the change puts
\* p itself in force.
C33_NewPasscodeInForce ==
    /\ [][PasscodeChangeStep => g_cfg'.passcode = req'.root.new_passcode.s]_vars
    /\ PasscodeInForce

\* what the code does: the change puts in force the first MAX_STR - 1 characters of p
C33_NewPasscodeCutInForce ==
    /\ [][PasscodeChangeStep =>
              g_cfg'.passcode = Prefix(req'.root.new_passcode.s, MAX_STR - 1)]_vars
    /\ PasscodeInForce

\* the passcode was changed to a text of MAX_STR + 4 characters and a request that
\* carries that text was answered 401
C33_LongPasscodeRefused ==
    /\ req_count = 2
    /\ req.root.passcode = JStr(T_long)
    /\ g_cfg.passcode = Prefix(T_long, MAX_STR - 1)
    /\ resp.code = 401

(***************************************************************************)
(* SpecBootLive: SpecBoot with the scheduling of app_main.  app_main runs  *)
(* in its own task, so each of its steps is taken once it stays enabled;   *)
(* the wait for the event bits ends when a bit is set or when its 15 s run *)
(* out.  Nothing is assumed of the radio or of the event loop.             *)
(***************************************************************************)
BootFairness ==
    /\ WF_vars(Boot_LoadConfig)
    /\ WF_vars(Boot_InitOutputs)
    /\ WF_vars(Boot_StartWifi)
    /\ WF_vars(Boot_WaitBits)
    /\ WF_vars(Boot_WaitTimeout)
    /\ WF_vars(Boot_StartHttp)

SpecBootLive == InitBoot /\ [][NextBoot]_vars /\ BootFairness

\* app_main has not yet called start_http_server
Booting == pc \in {"load", "init_outputs", "wifi", "wait"}

\* start_http_server has been called and has returned
HttpServerStartReached == pc \in {"serving", "no_server"}

\* C34: boot always terminates: for every outcome of the load and every sequence of
\* Wi-Fi events, none at all included, app_main reaches the start of the HTTP server and
\* returns from it; the only step that blocks is the initial wait for the connection,
\* which its timeout bounds.
C34_BootReachesHttpServerStart == (Booting \/ pc = "http") ~> HttpServerStartReached

\* the wait ran out with no bit set (no Wi-Fi event was ever handled to the end), the
\* fallback was started and the HTTP server is serving
C34_Witness ==
    /\ pc = "serving"
    /\ g_wifi_events = {}
    /\ wifi_mode = "ap"
    /\ \E i \in 1..Len(wifi_calls) : wifi_calls[i] = "stop"
    /\ radio_events = 0

(***************************************************************************)
(* SpecRadio: SpecWifi's boots and Wi-Fi events, and /api/config requests  *)
(* that set station credentials while the radio runs.                      *)
(***************************************************************************)
RadioCfgReqs ==
    {[EmptyCfgReq(P_right) EXCEPT !.wifi_ssid = JStr(T_h)],
     [EmptyCfgReq(P_right) EXCEPT !.wifi_ssid = JStr(<<>>), !.ap_pass = JStr(T_pass5)]}

InitRadio == PowerOn({StoreNone, StoreCur(CurBlobSta)})

NextRadio ==
    \/ Boot_LoadConfig
    \/ Boot_InitOutputs
    \/ Boot_StartWifi
    \/ Boot_WaitBits
    \/ Boot_WaitTimeout
    \/ Boot_StartHttp
    \/ HandleEvent
    \/ RadioGotIp
    \/ RadioDisconnected
    \/ \E root \in RadioCfgReqs : config_handler(root)
    \/ Reboot

SpecRadio == InitRadio /\ [][NextRadio]_vars

\* C35: the access-point fallback is started at most once per boot, and once it has been
\* started the device never returns to station mode: no later Wi-Fi event (a disconnect,
\* an address acquired after the initial wait timed out) and no HTTP request switches
\* the radio back, starts a station attempt or starts the access point a second time.
C35_FallbackOnceAndForGood ==
    /\ [](ap_starts <= 1)
    /\ [](wifi_mode = "ap" => ap_starts = 1 /\ sta_link = "idle")
    /\ [][wifi_mode = "ap" /\ boots' = boots =>
              /\ wifi_mode' = "ap"
              /\ wifi_calls' = wifi_calls
              /\ ap_auth' = ap_auth]_vars

\* the wait timed out and the fallback was started; afterwards the address event that
\* was still queued was handled and a configuration request set a station SSID
C35_Witness ==
    /\ wifi_mode = "ap"
    /\ ap_starts = 1
    /\ "CONNECTED" \in g_wifi_events
    /\ req.ep = "config"
    /\ resp = RespSaved
    /\ g_cfg.wifi_ssid = T_h
    /\ "FAIL" \notin g_wifi_events
    /\ \E i \in 1..Len(wifi_calls) : wifi_calls[i] = "stop"

(***************************************************************************)
(* SpecRelay: boots with four or eight active relays, then serves relay    *)
(* commands and /api/config requests that lower and raise relay_count.     *)
(***************************************************************************)
RelayStores == {StoreNone, StoreCur(CtlBlob8)}

RelayCfgReqs == {[EmptyCfgReq(P_right) EXCEPT !.relay_count = JNum(c)] : c \in {2, 8}}

RelayCtlReqs ==
    {CtlReq(P_right, RelayCh(d), JStr(s), JAbsent) :
        d \in {<<"1">>, <<"3">>, <<"5">>}, s \in {S_on, S_toggle}}

InitRelay == PowerOn(RelayStores)

NextRelay ==
    \/ Boot_LoadConfig
    \/ Boot_InitOutputs
    \/ Boot_StartWifi
    \/ Boot_StartHttp
    \/ \E root \in RelayCfgReqs : config_handler(root)
    \/ \E root \in RelayCtlReqs : req_count < MaxCtlReqs /\ control_request(root)

SpecRelay == InitRelay /\ [][NextRelay]_vars

\* C36: in every state after boot, relay[i] is false for every index i >= relay_count:
\* a control command cannot turn on a relay outside the configured range, and a
\* configuration request that lowers relay_count forces the de-activated relays off.
C36_InactiveRelaysOff ==
    pc \in {"serving", "no_server"} =>
        \A i \in 0..(MAX_RELAYS - 1) : i >= g_cfg.relay_count => ~g_state.relay[i]

\* after a relay command, a configuration request lowered relay_count from 8 to 2: it
\* drove the pin of relay 5 low, relay 1 kept its state and relays 3 and 5 are off
C36_Witness ==
    /\ req_count = 2
    /\ req.ep = "config"
    /\ nvs = StoreCur(CtlBlob8)
    /\ g_cfg.relay_count = 2
    /\ <<"gpio_set_level", 4, 0>> \in drv_calls
    /\ ~g_state.relay[2] /\ ~g_state.relay[4]
    /\ gpio_level[4] = 0

(***************************************************************************)
(* GET /api/status: the network object (SpecWifi).                         *)
(***************************************************************************)
\* add_network_status: sta_connected is the CONNECTED bit of the event group
sta_connected(bits) == "CONNECTED" \in bits

\* the station holds an address: the link is up in station mode
StationHoldsIp == wifi_mode = "sta" /\ wifi_started /\ sta_link = "up"

\* C37: the sta_connected flag of GET /api/status is true only while the station
\* holds an IP: once the event loop has handled every posted event, after a disconnect
\* that follows a successful connection and after the switch to the AP fallback, the
\* status reports sta_connected false.
C37_StaConnectedOnlyWithIp ==
    Listening /\ evq = <<>> /\ sta_connected(g_wifi_events) => StationHoldsIp

\* the station connected, the server was started, the link was then lost and the
\* disconnect event handled: the flag is still true
C37_ConnectedAfterDisconnect ==
    /\ Listening /\ evq = <<>>
    /\ wifi_mode = "sta"
    /\ sta_link # "up"
    /\ g_last_wifi_disc_reason # 0
    /\ sta_connected(g_wifi_events)

\* the wait timed out, the fallback was started, and the address event that was still
\* queued was handled afterwards: the flag is true in access-point mode
C37_ConnectedInFallback ==
    /\ Listening /\ evq = <<>>
    /\ wifi_mode = "ap"
    /\ sta_connected(g_wifi_events)

(***************************************************************************)
(* What reaches the store (SpecCfg).                                       *)
(***************************************************************************)
\* the sanitized invariants of a configuration: relay_count in 1..8, every relay_gpio
\* slot -1 or an allowlisted output pin
SanitizedInvariants(cfg) ==
    /\ cfg.relay_count \in 1..MAX_RELAYS
    /\ \A i \in 0..(MAX_RELAYS - 1) :
           cfg.relay_gpio[i] = -1 \/ AllowlistedOutputPin(cfg.relay_gpio[i])

\* a step that writes a record to the store
StoreWrittenStep == nvs' # nvs

\* C38: whenever POST /api/config answers {saved:true} the record in the store equals the
\* in-memory DeviceConfig, and every record ever written to the store, by a configuration
\* save or by the legacy migration, satisfies the sanitized invariants.
C38_SavedMeansStoredAndSane ==
    /\ [][ConfigAcceptedStep /\ resp' = RespSaved => nvs' = StoreCur(g_cfg')]_vars
    /\ [][StoreWrittenStep => nvs'.kind = "current" /\ SanitizedInvariants(nvs'.blob)]_vars

\* what holds of the configuration save: a record it writes is the in-memory
\* DeviceConfig and satisfies the sanitized invariants
C38_ConfigSaveWritesSaneMemory ==
    [][ConfigAcceptedStep /\ StoreWrittenStep =>
          nvs' = StoreCur(g_cfg') /\ SanitizedInvariants(nvs'.blob)]_vars

\* /api/config answered {saved:true} and the store holds no record
C38_SavedButNotStored ==
    /\ req.ep = "config"
    /\ resp = RespSaved
    /\ nvs = StoreNone

\* the migration wrote a record whose slot 0 names pin 99
C38_MigratedRecordUnsanitized ==
    /\ load_path = "legacy"
    /\ nvs.kind = "current"
    /\ nvs.blob.relay_gpio[0] = 99
    /\ g_cfg.relay_gpio[0] = RELAY1_PIN

(***************************************************************************)
(* The outputs after a configuration request (SpecPin).                    *)
(***************************************************************************)
\* the PWM outputs: channel and fixed pin
PwmOutputs == {o \in AuxOutputs : o.pwm # -1}

\* every active relay pin is at the level of its relay
RelayDriveMatches ==
    \A i \in ActiveRelaySlots : gpio_level[g_cfg.relay_gpio[i]] = Level(g_state.relay[i])

\* every PWM channel whose pin no relay claims has the duty of its logical percentage
PwmDriveMatches ==
    \A o \in PwmOutputs :
        ~ClaimedByRelay(g_cfg, o.pin) =>
            ledc_duty[o.pwm] = (ChannelPercent(g_state, o.pwm) * 255) \div 100

\* C39: after an authorised /api/config completes, the physical drive of every output
\* still matches the unchanged logical OutputState: each active relay pin is at the level
\* of relay[i], and each PWM channel whose pin is not claimed by a relay (dimmer, RGB,
\* fan speed) has the duty of its logical percentage scaled to 0..255 (fan: 0 when
\* fan_power is false).
C39_DriveMatchesStateAfterConfig ==
    [][ConfigAcceptedStep =>
          /\ g_state'.dimmer_pct = g_state.dimmer_pct
          /\ g_state'.rgb = g_state.rgb
          /\ g_state'.fan_power = g_state.fan_power
          /\ g_state'.fan_speed_pct = g_state.fan_speed_pct
          /\ RelayDriveMatches'
          /\ PwmDriveMatches']_vars

\* what holds after the request: the logical percentages are kept, the relay pins match
\* and every PWM channel whose pin no relay claims is at duty 0
C39_PwmStoppedAfterConfig ==
    [][ConfigAcceptedStep =>
          /\ g_state'.dimmer_pct = g_state.dimmer_pct
          /\ g_state'.rgb = g_state.rgb
          /\ g_state'.fan_power = g_state.fan_power
          /\ g_state'.fan_speed_pct = g_state.fan_speed_pct
          /\ RelayDriveMatches'
          /\ \A o \in PwmOutputs : ~ClaimedByRelay(g_cfg', o.pin) => ledc_duty'[o.pwm] = 0]_vars

\* the dimmer was set to 50 percent and a configuration request was then served: the
\* logical percentage is still 50 and the channel, whose pin no relay claims, is at duty 0
C39_DimmerDarkAfterConfig ==
    /\ req.ep = "config"
    /\ resp = RespSaved
    /\ g_state.dimmer_pct = 50
    /\ ~ClaimedByRelay(g_cfg, DIMMER_PIN)
    /\ ledc_duty[CH_DIMMER] = 0
    /\ <<"ledc_channel_config", CH_DIMMER, 0>> \in drv_calls

====
